--------------------------------- MODULE Kyc ---------------------------------
(***************************************************************************)
(* Hosted identity verification of one user: the wallet's screen (kyc.tsx),*)
(* the handlers createKycSession and kycSessionStatus, and the provider.   *)
(*                                                                         *)
(* The screen asks for the status in three ways that do not know of each   *)
(* other: a loop, a quiet check while the provider's page is open, and a   *)
(* check when the screen is mounted.  Each is a call of kycSessionStatus   *)
(* that goes on at the server whatever the screen does meanwhile.  The     *)
(* single row kyc_session:<user> is read, looked up at the provider and    *)
(* deleted in separate steps.                                              *)
(*                                                                         *)
(* What the screen shows of the user comes from the profile, which it      *)
(* reads every 15 seconds and after an approval, and from the wallet's     *)
(* store only as long as no profile has been read.  (A new read cancels    *)
(* the one under way, so that a read is one step.)                         *)
(***************************************************************************)
EXTENDS Integers, FiniteSets

CONSTANTS
    Sessions,       \* the calls of createKycSession
    Provider,       \* Provider[s]: the provider that was active then
    NoSession,
    Opened,         \* the sessions that may be open when the screen is mounted
    Attempts,       \* how often a loop asks (10, or 8 after the page)
    Faults          \* which of {"status", "start", "database", "restart", "profile"}
                    \* may fail

KycConstants == NoSession \notin Sessions /\ Opened \subseteq Sessions /\ Attempts \in Nat

Checks == {"loop", "quiet", "mount"}
Verdicts == {"pending", "approved", "rejected", "abandoned"}

VARIABLES
    session,        \* the kyc_session row
    created,        \* the sessions there have been
    verdict,        \* verdict[a]: what the provider has decided of attempt a
    check,          \* check[c]: a call of kycSessionStatus
    userKyc,        \* kycStatus VERIFIED in the API's memory
    rowKyc,         \* kycStatus VERIFIED in the "User" row
    walletKyc,      \* VERIFIED in the wallet's store
    profile,        \* kycStatus of the profile that was read last (profileData)
    phase, page,    \* flowPhase of the screen; the session whose page was opened last
    loop,           \* runPollingLoop: pollRunningRef and where it is
    cancel,         \* pollCancelRef
    timedOut,       \* checkTimedOut
    starting,       \* startingSession
    stalled,        \* (history) the screen confirms without a loop of its own: see
                    \* RunLoop and StartFails
    lost            \* (history) what was lost: an approval, the API's memory of one

kycVars == <<session, created, verdict, check, userKyc, rowKyc, walletKyc, profile,
             phase, page, loop, cancel, timedOut, starting, stalled, lost>>
serverVars == <<session, created, verdict, userKyc, rowKyc>>
screenVars == <<walletKyc, profile, phase, page, loop, cancel, timedOut, starting, stalled>>

\* A Dojah reference is made for each session; Sumsub has one applicant per user,
\* whatever session asks.
AttemptOf(s) == IF Provider[s] = "SUMSUB" THEN NoSession ELSE s

NoCheck == [stage |-> "idle", session |-> NoSession, answer |-> "none", page |-> NoSession]
LoopOff == [at |-> "off", left |-> 0]

KycTypeOK ==
    /\ session \in Sessions \cup {NoSession}
    /\ created \subseteq Sessions
    /\ verdict \in [Sessions \cup {NoSession} -> Verdicts]
    /\ check \in [Checks -> [stage : {"idle", "asked", "loaded", "clear", "record", "answered"},
                             session : Sessions \cup {NoSession},
                             answer : Verdicts \cup {"none", "error"},
                             page : Sessions \cup {NoSession}]]
    /\ userKyc \in BOOLEAN /\ rowKyc \in BOOLEAN /\ walletKyc \in BOOLEAN
    /\ profile \in {"unread", "other", "verified"}
    /\ phase \in {"intro", "webview", "polling"}
    /\ page \in Sessions \cup {NoSession}
    /\ loop \in [at : {"off", "top", "asking", "refetch"}, left : 0..Attempts]
    /\ cancel \in BOOLEAN /\ timedOut \in BOOLEAN
    /\ starting \in Sessions \cup {NoSession}
    /\ stalled \in BOOLEAN
    /\ lost \subseteq {"approval", "memory"}

KycInit ==
    /\ session \in {NoSession} \cup Opened
    /\ created = {session} \ {NoSession}
    /\ verdict = [a \in Sessions \cup {NoSession} |-> "pending"]
    /\ check = [c \in Checks |-> IF c = "mount" THEN [NoCheck EXCEPT !.stage = "asked"] ELSE NoCheck]
    /\ userKyc = FALSE /\ rowKyc = FALSE /\ walletKyc = FALSE
    /\ profile = "other" \/ ("profile" \in Faults /\ profile = "unread")
    /\ phase = "intro" /\ page = NoSession
    /\ loop = LoopOff
    /\ cancel = FALSE /\ timedOut = FALSE
    /\ starting = NoSession
    /\ stalled = FALSE
    /\ lost = {}

-----------------------------------------------------------------------------
(* The provider decides once the user has been on its page; at Sumsub a    *)
(* rejected applicant may try again.                                       *)

Decide(a, v) ==
    /\ \E s \in created : Provider[s] # "SIMULATED" /\ AttemptOf(s) = a
    /\ verdict[a] = "pending" \/ (verdict[a] = "rejected" /\ a = NoSession)
    /\ v = "abandoned" => a # NoSession
    /\ verdict' = [verdict EXCEPT ![a] = v]
    /\ UNCHANGED <<session, created, check, userKyc, rowKyc, screenVars, lost>>

-----------------------------------------------------------------------------
(* kycSessionStatus.                                                       *)

Moves(c, from, rec) == check[c].stage = from /\ check' = [check EXCEPT ![c] = rec]

AnswerOf(c, said) == [check[c] EXCEPT !.stage = "answered", !.session = NoSession, !.answer = said]

\* loadKycSession: no row is "none", and so is one that has expired and is
\* deleted, or could not be read.
Load(c) ==
    /\ \/ /\ session # NoSession
          /\ Moves(c, "asked", [check[c] EXCEPT !.stage = "loaded", !.session = session])
          /\ UNCHANGED session
       \/ /\ Moves(c, "asked", AnswerOf(c, "none"))
          /\ session' = NoSession \/ ("database" \in Faults /\ session' = session)
    /\ UNCHANGED <<created, verdict, userKyc, rowKyc, screenVars, lost>>

\* (mutant) a decision is taken for an approval
LookupResult_AnyDecision(s) ==
    IF Provider[s] = "SIMULATED" \/ verdict[AttemptOf(s)] = "rejected" THEN "approved"
    ELSE verdict[AttemptOf(s)]

LookupResult(s) ==
    IF Provider[s] = "SIMULATED" THEN "approved" ELSE verdict[AttemptOf(s)]

Lookup(c) ==
    /\ check[c].stage = "loaded"
    /\ LET result == LookupResult(check[c].session) IN
       IF result = "pending"
       THEN Moves(c, "loaded", AnswerOf(c, "pending"))
       ELSE Moves(c, "loaded", [check[c] EXCEPT !.stage = "clear", !.session = NoSession,
                                                 !.answer = result])
    /\ UNCHANGED <<serverVars, screenVars, lost>>

\* clearKycSession deletes the user's row, whichever session it holds by now.
Clear(c) ==
    /\ \/ /\ check[c].answer = "approved"
          /\ Moves(c, "clear", [check[c] EXCEPT !.stage = "record"])
       \/ /\ check[c].answer # "approved"
          /\ Moves(c, "clear", AnswerOf(c, check[c].answer))
    /\ session' = NoSession \/ ("database" \in Faults /\ session' = session)
    /\ UNCHANGED <<created, verdict, userKyc, rowKyc, screenVars, lost>>

\* The user is read, marked VERIFIED in memory, and a virtual account asked for,
\* which may fail; the row is written without await.
Record(c) ==
    /\ \/ Moves(c, "record", AnswerOf(c, "approved"))
       \/ "status" \in Faults /\ Moves(c, "record", AnswerOf(c, "error"))
    /\ userKyc' = TRUE
    /\ UNCHANGED <<session, created, verdict, rowKyc, screenVars, lost>>

WriteUserRow ==
    /\ userKyc /\ ~rowKyc
    /\ rowKyc' = TRUE
    /\ UNCHANGED <<session, created, verdict, check, userKyc, screenVars, lost>>

\* The provider, the database or the network fails: status 500, or no answer.  An
\* approval whose session is already deleted is gone.
CheckFails(c) ==
    /\ "status" \in Faults
    /\ check[c].stage \in {"loaded", "record"}
    /\ check' = [check EXCEPT ![c] = AnswerOf(c, "error")]
    /\ lost' = IF check[c].stage = "record" THEN lost \cup {"approval"} ELSE lost
    /\ UNCHANGED <<serverVars, screenVars>>

ApiRestarts ==
    /\ "restart" \in Faults
    /\ \E c \in Checks : check[c].stage \notin {"idle", "answered"}
    /\ check' = [c \in Checks |-> IF check[c].stage \in {"idle", "answered"} THEN check[c]
                                  ELSE AnswerOf(c, "error")]
    /\ lost' = lost \cup {"approval" : c \in {d \in Checks : check[d].stage = "record"}}
                    \cup (IF userKyc /\ ~rowKyc THEN {"memory"} ELSE {})
    /\ userKyc' = rowKyc
    /\ UNCHANGED <<session, created, verdict, rowKyc, screenVars>>

-----------------------------------------------------------------------------
(* The profile.                                                            *)

\* kycComplete: the profile's status comes before the store's.
KycComplete == profile = "verified" \/ (profile = "unread" /\ walletKyc)

\* refetchProfile never throws.  A read that fails leaves what was read last, or is
\* answered with what the store held when the screen was drawn.
RefetchProfile ==
    \/ profile' = IF userKyc THEN "verified" ELSE "other"
    \/ "profile" \in Faults /\ UNCHANGED profile
    \/ "profile" \in Faults /\ profile' \in {"other"} \cup {"verified" : v \in {walletKyc} \ {FALSE}}

\* Every 15 seconds (useUserProfile), and when finalizeApproved asks for it.
ReadProfile ==
    /\ RefetchProfile
    /\ UNCHANGED <<serverVars, check, walletKyc, phase, page, loop, cancel, timedOut, starting,
                   stalled, lost>>

-----------------------------------------------------------------------------
(* runPollingLoop.                                                         *)

\* Nothing happens while a loop is running, be it one that was cancelled and has
\* not noticed yet, or one that has its approval and reads the profile.
RunLoop ==
    IF loop.at # "off"
    THEN stalled' = cancel /\ UNCHANGED <<loop, cancel, timedOut>>
    ELSE /\ loop' = [at |-> "top", left |-> Attempts]
         /\ cancel' = FALSE /\ timedOut' = FALSE /\ stalled' = FALSE

\* At the top of a round, after the pause: a cancelled loop stops here.
LoopAsks ==
    /\ loop.at = "top" /\ loop.left > 0
    /\ IF cancel THEN loop' = LoopOff /\ UNCHANGED check
       ELSE /\ loop' = [loop EXCEPT !.at = "asking"]
            /\ check' = [check EXCEPT !["loop"] = [NoCheck EXCEPT !.stage = "asked"]]
    /\ UNCHANGED <<serverVars, walletKyc, profile, phase, page, cancel, timedOut, starting,
                   stalled, lost>>

Decided(said) == said \in {"approved", "rejected", "abandoned"}

\* Back to the start, for finalizeApproved too, which keeps the loop until the
\* profile has been read; an answer that decides nothing is waited for.
LoopHandles ==
    LET said == check["loop"].answer IN
    /\ loop.at = "asking" /\ Moves("loop", "answered", NoCheck)
    /\ loop' = CASE cancel -> LoopOff
                 [] ~cancel /\ said = "approved" -> [loop EXCEPT !.at = "refetch"]
                 [] ~cancel /\ said \in {"rejected", "abandoned", "none"} -> LoopOff
                 [] ~cancel /\ said \in {"pending", "error"} ->
                        [at |-> "top", left |-> loop.left - 1]
    /\ IF ~cancel /\ (Decided(said) \/ said = "none")
       THEN phase' = "intro" /\ stalled' = FALSE
       ELSE UNCHANGED <<phase, stalled>>
    /\ walletKyc' = (walletKyc \/ (~cancel /\ said = "approved"))
    /\ UNCHANGED <<serverVars, profile, page, cancel, timedOut, starting, lost>>

LoopRefetched ==
    /\ loop.at = "refetch"
    /\ loop' = LoopOff
    /\ RefetchProfile
    /\ UNCHANGED <<serverVars, check, walletKyc, phase, page, cancel, timedOut, starting,
                   stalled, lost>>

\* (mutant) the loop ends without offering a retry
LoopExhausted_Silent ==
    /\ loop.at = "top" /\ loop.left = 0
    /\ loop' = LoopOff
    /\ UNCHANGED <<serverVars, check, walletKyc, profile, phase, page, timedOut, cancel, starting,
                   stalled, lost>>

LoopExhausted ==
    /\ loop.at = "top" /\ loop.left = 0
    /\ loop' = LoopOff
    /\ IF cancel THEN UNCHANGED <<timedOut, phase>>
                 ELSE timedOut' = TRUE /\ phase' = "polling"
    /\ UNCHANGED <<serverVars, check, walletKyc, profile, page, cancel, starting, stalled, lost>>

-----------------------------------------------------------------------------
(* The screen.  A user whose profile is complete sees another one, which   *)
(* has none of these buttons.                                              *)

StartVerification(s) ==
    /\ ~KycComplete /\ starting = NoSession
    /\ phase = "intro" \/ (phase = "polling" /\ timedOut)
    /\ s \notin created
    /\ starting' = s
    /\ timedOut' = FALSE
    /\ UNCHANGED <<serverVars, check, walletKyc, profile, phase, page, loop, cancel, stalled, lost>>

\* createKycSession: saveKycSession replaces the session there is.
SaveSession(s) ==
    /\ starting = s /\ s \notin created
    /\ session' = s
    /\ created' = created \cup {s}
    /\ UNCHANGED <<verdict, check, userKyc, rowKyc, screenVars, lost>>

\* The answer opens the provider's page, or polls if there is none.
SessionStarted(s) ==
    /\ starting = s /\ s \in created
    /\ starting' = NoSession
    /\ page' = s
    /\ IF Provider[s] # "SIMULATED"
       THEN phase' = "webview" /\ stalled' = FALSE /\ UNCHANGED <<loop, cancel, timedOut>>
       ELSE phase' = "polling" /\ RunLoop
    /\ UNCHANGED <<serverVars, check, walletKyc, profile, lost>>

\* The start fails, before or after the session was saved; an alert is shown.  A
\* screen that offered the restart is left confirming.
StartFails ==
    /\ "start" \in Faults
    /\ starting # NoSession
    /\ starting' = NoSession
    /\ created' = created \cup {starting}
    /\ stalled' = (phase = "polling")
    /\ UNCHANGED <<session, verdict, check, userKyc, rowKyc, walletKyc, profile, phase, page, loop,
                   cancel, timedOut, lost>>

\* closeWebviewToPolling: the user, or a message of the page.
CloseWebview ==
    /\ ~KycComplete /\ phase = "webview"
    /\ phase' = "polling"
    /\ RunLoop
    /\ UNCHANGED <<serverVars, check, walletKyc, profile, page, starting, lost>>

CheckAgain ==
    /\ ~KycComplete /\ phase = "polling" /\ timedOut
    /\ RunLoop
    /\ UNCHANGED <<serverVars, check, walletKyc, profile, phase, page, starting, lost>>

CancelPolling ==
    /\ ~KycComplete /\ phase = "polling"
    /\ cancel' = TRUE
    /\ phase' = "intro" /\ stalled' = FALSE
    /\ UNCHANGED <<serverVars, check, walletKyc, profile, page, loop, timedOut, starting, lost>>

\* The quiet check of the open page; a page that was closed ignores the answer.
\* (In the model the next one starts when the last one is answered.)
QuietAsks ==
    /\ phase = "webview"
    /\ Moves("quiet", "idle", [NoCheck EXCEPT !.stage = "asked", !.page = page])
    /\ UNCHANGED <<serverVars, screenVars, lost>>

QuietHandles ==
    LET said == check["quiet"].answer IN
    /\ Moves("quiet", "answered", NoCheck)
    /\ IF phase = "webview" /\ check["quiet"].page = page /\ Decided(said)
       THEN phase' = "intro" /\ walletKyc' = (walletKyc \/ said = "approved")
       ELSE UNCHANGED <<phase, walletKyc>>
    /\ UNCHANGED <<serverVars, profile, page, loop, cancel, timedOut, starting, stalled, lost>>

\* The check of the mount takes the screen over whatever it shows by then.
MountHandles ==
    LET said == check["mount"].answer IN
    /\ Moves("mount", "answered", NoCheck)
    /\ CASE said = "approved" -> /\ phase' = "intro" /\ stalled' = FALSE /\ walletKyc' = TRUE
                                 /\ UNCHANGED <<loop, cancel, timedOut>>
         [] said = "pending" -> /\ phase' = "polling" /\ RunLoop
                                /\ UNCHANGED walletKyc
         [] OTHER -> UNCHANGED <<phase, walletKyc, loop, cancel, timedOut, stalled>>
    /\ UNCHANGED <<serverVars, profile, page, starting, lost>>

-----------------------------------------------------------------------------

KycNext ==
    \/ \E a \in Sessions \cup {NoSession}, v \in Verdicts \ {"pending"} : Decide(a, v)
    \/ \E c \in Checks : Load(c) \/ Lookup(c) \/ Clear(c) \/ Record(c) \/ CheckFails(c)
    \/ WriteUserRow \/ ApiRestarts
    \/ ReadProfile
    \/ LoopAsks \/ LoopHandles \/ LoopRefetched \/ LoopExhausted
    \/ \E s \in Sessions : StartVerification(s) \/ SaveSession(s) \/ SessionStarted(s)
    \/ StartFails \/ CloseWebview \/ CheckAgain \/ CancelPolling
    \/ QuietAsks \/ QuietHandles \/ MountHandles

KycSpec == KycInit /\ [][KycNext]_kycVars

-----------------------------------------------------------------------------
(* Properties.                                                             *)

\* "The client never decides the outcome" (kycSessionStatus): a wallet has in its
\* store, and shows from its profile, VERIFIED only what the API holds VERIFIED,
\* unless a restart came before the row's write, and the API holds VERIFIED only
\* what the provider approved in one of this user's sessions -- whichever of the
\* three checks saw it, and however they and new sessions overlapped.
VerifiedWasApproved ==
    /\ walletKyc => userKyc \/ "memory" \in lost
    /\ profile = "verified" => userKyc \/ "memory" \in lost
    /\ userKyc \/ rowKyc => \E s \in created :
          Provider[s] = "SIMULATED" \/ verdict[AttemptOf(s)] = "approved"

\* The screen that says "Confirming your result" is waiting for something: for a
\* loop that asks and was not cancelled, for the user, who is offered a retry, for a
\* new session that is being started, or for the next read of the profile, which the
\* API answers VERIFIED.  It waits for nothing in three cases only: its loop was
\* not started because one that the user had cancelled had not stopped yet, or the
\* restart of a verification failed (both are stalled, until the user cancels), or
\* a restart of the API forgot the approval that the wallet was told.
WaitingIsForSomething ==
    phase = "polling" /\ ~KycComplete
        => \/ loop.at \in {"top", "asking"} /\ ~cancel
           \/ timedOut
           \/ starting # NoSession
           \/ walletKyc /\ (userKyc \/ "memory" \in lost)
           \/ stalled
=============================================================================
