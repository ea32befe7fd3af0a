------------------------------- MODULE Wallet -------------------------------
(***************************************************************************)
(* The wallet app and the chain services behind it: the session, the two   *)
(* send screens and the notifications; a payment on chain and the drips of *)
(* gas that payments may need.                                             *)
(*                                                                         *)
(* They share no variable: what a component does, it does whatever the     *)
(* others do.  So part says which of them moves, and the others stay where *)
(* they are.  A component that never moves has no state, which the         *)
(* invariants take no notice of.                                           *)
(***************************************************************************)

CONSTANTS
    SignIns, NoSession, MaxSetbacks, MaxSaves, StoreFaults,     \* Session
    ChainSends, NoSend, MaxChainPrompts, MaxFailures,        \* OnchainSend
    SendFaults,
    Targets, NoTarget, MadeUp, Payments, Biometrics,         \* BankSend
    MaxBankPrompts,
    Notes, Marks, NoteGets, NoteFaults,                      \* Notifications
    Chains, Nodes, Polls,                                    \* ChainSend
    DripCalls, Signer, Guarded, Concurrent, MaxPerWallet,        \* GasDrips
    DailyCap, TreasuryFloor, TreasuryGas

VARIABLES
    part,
    store, sdk, app, using, signIn, logout, refreshing, pin,        \* Session
    landing, used, setbacks, saves, astray,
    sendRow, sendKnown, debits, sheet, sendPrompts, sendRequest,    \* OnchainSend
    interval, sendPolls, shown, approvals, failures,
    book, typed, prefilled, name, lookups, screen, bankPrompts,     \* BankSend
    payment, result,
    noteRows, list, inserts, noteGet, patch, noteCache, current,    \* Notifications
    marked, settled,
    payChain, sponsor, atas, creates, payAt, hashes, requests, tx,  \* ChainSend
    payHash, ask, polls,
    at, gas, drip, rows, uncounted                                  \* GasDrips

sessionVars == <<store, sdk, app, using, signIn, logout, refreshing, pin, landing,
                 used, setbacks, saves, astray>>
onchainSendVars == <<sendRow, sendKnown, debits, sheet, sendPrompts, sendRequest,
                     interval, sendPolls, shown, approvals, failures>>
bankSendVars == <<book, typed, prefilled, name, lookups, screen, bankPrompts,
                  payment, result>>
notesVars == <<noteRows, list, inserts, noteGet, patch, noteCache, current,
               marked, settled>>
payVars == <<payChain, sponsor, atas, creates, payAt, hashes, requests, tx,
             payHash, ask, polls>>
dripVars == <<at, gas, drip, rows, uncounted>>

walletVars == <<part, sessionVars, onchainSendVars, bankSendVars, notesVars,
                payVars, dripVars>>

-----------------------------------------------------------------------------

App == INSTANCE Session WITH
    None <- NoSession, login <- signIn, writes <- landing

Onc == INSTANCE OnchainSend WITH
    Sends <- ChainSends, Nothing <- NoSend, MaxPrompts <- MaxChainPrompts,
    Faults <- SendFaults,
    row <- sendRow, known <- sendKnown, prompts <- sendPrompts,
    request <- sendRequest, polls <- sendPolls

Bank == INSTANCE BankSend WITH
    Nothing <- NoTarget, MaxPrompts <- MaxBankPrompts, prompts <- bankPrompts

Note == INSTANCE Notifications WITH
    Gets <- NoteGets, Faults <- NoteFaults,
    rows <- noteRows, get <- noteGet, cache <- noteCache

Pay == INSTANCE ChainSend WITH
    chain <- payChain, at <- payAt, txHash <- payHash

Drip == INSTANCE GasDrips WITH Calls <- DripCalls

WalletParts == {"app", "onchain", "bank", "notes", "pay", "drips"}

\* The components' assumptions about their constants.
ASSUME WalletAssumption ==
    /\ App!SessionConstants
    /\ Onc!OnchainConstants
    /\ Bank!BankConstants
    /\ Note!NotesConstants
    /\ Pay!ChainSendConstants
    /\ Drip!GasDripsConstants

-----------------------------------------------------------------------------

\* The component that moves starts as it does alone.
ComponentsInit ==
    /\ IF part = "app" THEN App!SessionInit
       ELSE /\ store = {} /\ sdk = {} /\ app = {} /\ using = {} /\ signIn = {}
            /\ logout = {} /\ refreshing = {} /\ landing = {} /\ used = {}
            /\ pin = {} /\ setbacks = {} /\ saves = {} /\ astray = {}
    /\ IF part = "onchain" THEN Onc!OnchainInit
       ELSE /\ sendRow = {} /\ sendKnown = {} /\ debits = {} /\ sheet = {}
            /\ sendPrompts = {} /\ sendRequest = {} /\ interval = {} /\ sendPolls = {}
            /\ shown = {} /\ approvals = {} /\ failures = {}
    /\ IF part = "bank" THEN Bank!BankInit
       ELSE /\ book = {} /\ typed = {} /\ prefilled = {} /\ name = {} /\ lookups = {}
            /\ screen = {} /\ bankPrompts = {} /\ payment = {} /\ result = {}
    /\ IF part = "notes" THEN Note!NotesInit
       ELSE /\ noteRows = {} /\ list = {} /\ inserts = {} /\ noteGet = {}
            /\ patch = {} /\ noteCache = {} /\ current = {} /\ marked = {} /\ settled = {}
    /\ IF part = "pay" THEN Pay!ChainSendInit
       ELSE /\ payChain = {} /\ sponsor = {} /\ atas = {} /\ creates = {} /\ payAt = {}
            /\ hashes = {} /\ requests = {} /\ tx = {} /\ payHash = {} /\ ask = {}
            /\ polls = {}
    /\ IF part = "drips" THEN Drip!GasDripsInit
       ELSE at = {} /\ gas = {} /\ drip = {} /\ rows = {} /\ uncounted = {}

WalletInit == part \in WalletParts /\ ComponentsInit

\* Every component but that of part p stays as it is.
OthersStay(p) ==
    /\ UNCHANGED part
    /\ IF p = "app" THEN TRUE ELSE UNCHANGED sessionVars
    /\ IF p = "onchain" THEN TRUE ELSE UNCHANGED onchainSendVars
    /\ IF p = "bank" THEN TRUE ELSE UNCHANGED bankSendVars
    /\ IF p = "notes" THEN TRUE ELSE UNCHANGED notesVars
    /\ IF p = "pay" THEN TRUE ELSE UNCHANGED payVars
    /\ IF p = "drips" THEN TRUE ELSE UNCHANGED dripVars

AppMoves == part = "app" /\ OthersStay(part) /\ App!SessionNext
OnchainMoves == part = "onchain" /\ OthersStay(part) /\ Onc!OnchainNext
BankMoves == part = "bank" /\ OthersStay(part) /\ Bank!BankNext
NotesMove == part = "notes" /\ OthersStay(part) /\ Note!NotesNext
PayMoves == part = "pay" /\ OthersStay(part) /\ Pay!ChainSendNext
DripsMove == part = "drips" /\ OthersStay(part) /\ Drip!GasDripsNext

WalletNext ==
    \/ AppMoves \/ OnchainMoves \/ BankMoves
    \/ NotesMove \/ PayMoves \/ DripsMove

WalletSpec == WalletInit /\ [][WalletNext]_walletVars

-----------------------------------------------------------------------------
(* The properties of the components, under the names they have there, each *)
(* with the types of its component.                                        *)

SessionIsWhole == part = "app" => App!SessionTypeOK /\ App!SessionIsWhole
OnchainSendIsHonest == part = "onchain" => Onc!OnchainTypeOK /\ Onc!OnchainSendIsHonest
NameIsOfAccount == part = "bank" => Bank!BankTypeOK /\ Bank!NameIsOfAccount
ReadStaysRead == part = "notes" => Note!NotesTypeOK /\ Note!ReadStaysRead
SendIsHonest == part = "pay" => Pay!ChainSendTypeOK /\ Pay!SendIsHonest
DripsWithinBudget == part = "drips" => Drip!GasDripsTypeOK /\ Drip!DripsWithinBudget
=============================================================================
