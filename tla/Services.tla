------------------------------ MODULE Services ------------------------------
(***************************************************************************)
(* The components of the API beside the ledger and its requests: logins,   *)
(* the user's record, virtual accounts and the naira paid into them, the   *)
(* rate, the maintenance switch and identity verification.                 *)
(*                                                                         *)
(* They share no variable: what a component does, it does whatever the     *)
(* others do.  So part says which of them moves, and the others stay where *)
(* they are.  A component that never moves has no state, which the         *)
(* invariants take no notice of.                                           *)
(***************************************************************************)

CONSTANTS
    Logins, Who, AccountFaults,                              \* Accounts
    Fetches, AdminRates, Baseline, Throttle, FreshFor,       \* Rates
    RateHorizon,
    Sets, Gets, Unset, TTL, SwitchHorizon,                   \* Maintenance
    KycParts, KycSessions, KycProvider, KycOpened, KycFaults,\* Kyc: any number of
    NoSession, Attempts,                                     \* set-ups, by their part
    Pins, NoPin, MaxCalls, MaxChanges, RecordFaults,         \* UserRecord
    Naira, Chain, Spends, Readers, NoBalance, NairaFaults,   \* NairaDeposits
    Asks, Asker, AskFlow, Transfers, NumberFaults,           \* VirtualAccounts
    NoId

VARIABLES
    part,
    users, accountRow, walletRow, login, writes, sync, doubtful,    \* Accounts
    now, feed, rate, lastTry, fetch, overtaken,                     \* Rates
    clock, row, until, cache, lastFetchedAt, get, set, crossed,     \* Maintenance
    session, created, verdict, check, userKyc, rowKyc, walletKyc,   \* Kyc
    profile, phase, page, loop, cancel, timedOut, starting, stalled, lost,
    nairaRow, newest, memory, reserved, event, ensure, entry, hears, \* NairaDeposits
    credited, chainCredited, spent,
    mem, recordRow, upserts, reads, version, accepted, verified,    \* UserRecord
    doubts, calls, device, missed,
    issued, vaRequest, vaVerified, vaMemory, vaRows, reading,       \* VirtualAccounts
    vaShown, promised, deposit

accountVars == <<users, accountRow, walletRow, login, writes, sync, doubtful>>
ratesVars == <<now, feed, rate, lastTry, fetch, overtaken>>
maintenanceVars == <<clock, row, until, cache, lastFetchedAt, get, set, crossed>>
kycVars == <<session, created, verdict, check, userKyc, rowKyc, walletKyc, profile,
             phase, page, loop, cancel, timedOut, starting, stalled, lost>>
recordVars == <<mem, recordRow, upserts, reads, version, accepted, verified,
                doubts, calls, device, missed>>
numberVars == <<issued, vaRequest, vaVerified, vaMemory, vaRows, reading,
                vaShown, promised, deposit>>
nairaVars == <<nairaRow, newest, memory, reserved, event, ensure, entry, hears,
               credited, chainCredited, spent>>
servicesVars == <<part, accountVars, ratesVars, maintenanceVars, kycVars, nairaVars,
                  recordVars, numberVars>>

-----------------------------------------------------------------------------

Acc == INSTANCE Accounts WITH
    MayFail <- AccountFaults, Nobody <- NoId, userRow <- accountRow

Rate == INSTANCE Rates WITH Horizon <- RateHorizon

Maint == INSTANCE Maintenance WITH Horizon <- SwitchHorizon, now <- clock

\* p is the part of a set-up: the providers that are active, and what may fail.
Kyc(p) == INSTANCE Kyc WITH
    Sessions <- KycSessions[p], Provider <- KycProvider[p], Opened <- KycOpened[p],
    Faults <- KycFaults[p]

Rec == INSTANCE UserRecord WITH
    MayFail <- RecordFaults, row <- recordRow, writes <- upserts

Nai == INSTANCE NairaDeposits WITH
    Faults <- NairaFaults, NoRow <- NoBalance, account <- nairaRow, received <- chainCredited

Num == INSTANCE VirtualAccounts WITH
    Requests <- Asks, User <- Asker, Flow <- AskFlow, Deposits <- Transfers,
    MayFail <- NumberFaults, Nobody <- NoId,
    request <- vaRequest, verified <- vaVerified, memory <- vaMemory, rows <- vaRows,
    shown <- vaShown

OtherParts == {"accounts", "rates", "maintenance", "record", "numbers", "naira"}
ServiceParts == OtherParts \cup KycParts

\* The components' assumptions about their constants.
ASSUME ServicesAssumption ==
    /\ KycParts \cap OtherParts = {}
    /\ Acc!AccountsConstants
    /\ Maint!MaintenanceConstants
    /\ \A p \in KycParts : Kyc(p)!KycConstants
    /\ Rec!RecordConstants
    /\ Nai!NairaConstants
    /\ Num!NumberConstants

-----------------------------------------------------------------------------

\* The component that moves starts as it does alone.
ComponentsInit ==
    /\ IF part = "accounts" THEN Acc!AccountsInit
       ELSE /\ users = {} /\ accountRow = {} /\ walletRow = {} /\ login = {}
            /\ writes = {} /\ sync = {} /\ doubtful = {}
    /\ Rate!RatesInit
    /\ IF part = "maintenance" THEN Maint!MaintenanceInit
       ELSE /\ clock = {} /\ row = {} /\ until = {} /\ cache = {}
            /\ lastFetchedAt = {} /\ get = {} /\ set = {} /\ crossed = {}
    /\ IF part \in KycParts THEN \E p \in {part} : Kyc(p)!KycInit
       ELSE /\ session = {} /\ created = {} /\ verdict = {} /\ check = {}
            /\ userKyc = {} /\ rowKyc = {} /\ walletKyc = {} /\ phase = {}
            /\ page = {} /\ loop = {} /\ cancel = {} /\ timedOut = {}
            /\ starting = {} /\ profile = {} /\ stalled = {} /\ lost = {}
    /\ IF part = "record" THEN Rec!UserRecordInit
       ELSE /\ mem = {} /\ recordRow = {} /\ upserts = {} /\ reads = {} /\ version = {}
            /\ accepted = {} /\ verified = {} /\ doubts = {} /\ calls = {} /\ device = {}
            /\ missed = {}
    /\ IF part = "numbers" THEN Num!VirtualAccountsInit
       ELSE /\ issued = {} /\ vaRequest = {} /\ vaVerified = {} /\ vaMemory = {}
            /\ vaRows = {} /\ reading = {} /\ vaShown = {} /\ promised = {} /\ deposit = {}
    /\ IF part = "naira" THEN Nai!NairaInit
       ELSE /\ nairaRow = {} /\ newest = {} /\ memory = {} /\ reserved = {}
            /\ event = {} /\ ensure = {} /\ entry = {} /\ hears = {}
            /\ credited = {} /\ chainCredited = {} /\ spent = {}

ServicesInit == part \in ServiceParts /\ ComponentsInit

\* Every component but that of part p stays as it is.
OthersStay(p) ==
    /\ UNCHANGED part
    /\ IF p = "accounts" THEN TRUE ELSE UNCHANGED accountVars
    /\ IF p = "rates" THEN TRUE ELSE UNCHANGED ratesVars
    /\ IF p = "maintenance" THEN TRUE ELSE UNCHANGED maintenanceVars
    /\ IF p \in KycParts THEN TRUE ELSE UNCHANGED kycVars
    /\ IF p = "record" THEN TRUE ELSE UNCHANGED recordVars
    /\ IF p = "numbers" THEN TRUE ELSE UNCHANGED numberVars
    /\ IF p = "naira" THEN TRUE ELSE UNCHANGED nairaVars

AccountsMove == part = "accounts" /\ Acc!AccountsNext /\ OthersStay(part)
RatesMove == part = "rates" /\ Rate!RatesNext /\ OthersStay(part)
MaintenanceMoves == part = "maintenance" /\ Maint!MaintenanceNext /\ OthersStay(part)
KycMoves == \E p \in KycParts : part = p /\ Kyc(p)!KycNext /\ OthersStay(part)
NairaMoves == part = "naira" /\ Nai!NairaNext /\ OthersStay(part)
RecordMoves == part = "record" /\ Rec!UserRecordNext /\ OthersStay(part)
NumbersMove == part = "numbers" /\ Num!VirtualAccountsNext /\ OthersStay(part)

ServicesNext ==
    \/ AccountsMove \/ RatesMove \/ MaintenanceMoves \/ KycMoves
    \/ NairaMoves \/ RecordMoves \/ NumbersMove

ServicesSpec == ServicesInit /\ [][ServicesNext]_servicesVars

-----------------------------------------------------------------------------
(* The properties of the components, under the names they have there, each *)
(* with the types of its component.                                        *)

OneIdPerPerson == part = "accounts" => Acc!AccountsTypeOK /\ Acc!OneIdPerPerson
ShownWalletsAreWatched == part = "accounts" => Acc!ShownWalletsAreWatched
OverrideHolds == Rate!OverrideHolds
ServedIsRecent == part = "maintenance" => Maint!MaintenanceTypeOK /\ Maint!ServedIsRecent
VerifiedWasApproved == \A p \in KycParts : part = p => Kyc(p)!VerifiedWasApproved
WaitingIsForSomething ==
    \A p \in KycParts : part = p => Kyc(p)!KycTypeOK /\ Kyc(p)!WaitingIsForSomething
NairaNeverOverwrites == part = "naira" => Nai!NairaTypeOK /\ Nai!NairaNeverOverwrites
OnePin == part = "record" => Rec!UserRecordTypeOK /\ Rec!OnePin
AccountsReachTheirUser ==
    part = "numbers" => Num!VirtualAccountsTypeOK /\ Num!AccountsReachTheirUser
=============================================================================
