------------------------------ MODULE UserRecord ------------------------------
(***************************************************************************)
(* The record of one user and the PIN in it.  LedgerService keeps the      *)
(* record in memory, answers at once and writes the whole of it to the     *)
(* "User" row with upserts nobody waits for; the memory is filled again,   *)
(* after a restart and by logins, with rows read earlier.  The wallet app  *)
(* has the PIN a second time: set-pin.tsx asks for it, auth.store.ts sends *)
(* it to the server and then keeps it on the device, where it unlocks the  *)
(* app; the server's decides about payments.                               *)
(*                                                                         *)
(* The user was registered before.  The other device only matters for the  *)
(* PINs it sets.  The server has no more faults once it is in doubt.       *)
(***************************************************************************)
EXTENDS Integers, FiniteSets

CONSTANTS
    Pins,           \* the PINs the user may type
    NoPin,          \* none
    MayFail,        \* which of {"restart", "dbError", "netting", "kill"} may happen
    MaxCalls,       \* saves from the device
    MaxChanges      \* changes of the record on the server

RecordConstants == NoPin \notin Pins /\ MaxCalls \in Nat /\ MaxChanges \in Nat

NoRecord == [pin |-> NoPin, kyc |-> "unknown", v |-> 0]

VARIABLES
    mem,            \* the record in memory, NoRecord before it is read
    row,            \* the "User" row
    writes,         \* upserts under way
    reads,          \* rows read and not yet put into memory
    version,        \* changes made so far
    accepted,       \* (history) the PIN the server answered "set" last, and whose
    verified,       \* (history) updateUserKYC has verified the user
    doubts,         \* (history) what went wrong between memory and row
    calls,          \* calls[n]: the n-th setPin of auth.store.ts on the device
    device,         \* the PIN in the secure store and in the app's memory
    missed          \* (history) the device has missed the server's last PIN

serverVars == <<mem, row, writes, reads, version, verified, doubts>>
recordVars == <<serverVars, accepted, calls, device, missed>>

Stages == {"none", "asked", "handled", "stored", "done", "lost", "over"}
Records == [pin : Pins \cup {NoPin}, kyc : {"no", "yes"}, v : 0..MaxChanges]

UserRecordTypeOK ==
    /\ mem \in Records \cup {NoRecord}
    /\ row \in Records
    /\ writes \subseteq Records /\ reads \subseteq Records
    /\ version \in 0..MaxChanges
    /\ accepted \in [pin : Pins \cup {NoPin}, call : 0..MaxCalls]
    /\ verified \in BOOLEAN /\ missed \in BOOLEAN
    /\ doubts \subseteq {"lost", "overtaken", "stale", "bare"}
    /\ calls \in [1..MaxCalls -> [pin : Pins \cup {NoPin}, at : Stages]]
    /\ device \in [store : Pins \cup {NoPin}, pin : Pins \cup {NoPin}]

UserRecordInit ==
    /\ row = [pin |-> NoPin, kyc |-> "no", v |-> 0]
    /\ mem = row
    /\ writes = {} /\ reads = {} /\ version = 0
    /\ accepted = [pin |-> NoPin, call |-> 0]
    /\ verified = FALSE /\ doubts = {}
    /\ calls = [n \in 1..MaxCalls |-> [pin |-> NoPin, at |-> "none"]]
    /\ device = [store |-> NoPin, pin |-> NoPin]
    /\ missed = FALSE

-----------------------------------------------------------------------------
(* The server.                                                             *)

\* setUserPin and updateUserKYC: the record in memory, or a bare one made on the
\* spot, is changed and its upsert sent off.
Current == IF mem = NoRecord THEN [pin |-> NoPin, kyc |-> "no", v |-> 0] ELSE mem

Change(rec) ==
    /\ version < MaxChanges
    /\ version' = version + 1
    /\ mem' = [rec EXCEPT !.v = version + 1]
    /\ writes' = writes \cup {mem'}
    /\ doubts' = doubts \cup (IF mem = NoRecord THEN {"bare"} ELSE {})
    /\ UNCHANGED <<row, reads>>

\* The setPin handler, for a request whose sender may have given it up.
HandleSetPin(n) ==
    /\ calls[n].at \in {"asked", "lost"}
    /\ Change([Current EXCEPT !.pin = calls[n].pin])
    /\ accepted' = [pin |-> calls[n].pin, call |-> n]
    /\ missed' = (missed \/ calls[n].at = "lost")
    /\ calls' = [calls EXCEPT ![n].at = IF @ = "asked" THEN "handled" ELSE "over"]
    /\ UNCHANGED <<verified, device>>

OtherDeviceSetsPin ==
    \E p \in Pins :
        /\ Change([Current EXCEPT !.pin = p])
        /\ accepted' = [pin |-> p, call |-> 0]
        /\ missed' = TRUE
        /\ UNCHANGED <<verified, calls, device>>

\* updateUserKYC after an approval.
Verify ==
    /\ ~verified
    /\ Change([Current EXCEPT !.kyc = "yes"])
    /\ verified' = TRUE
    /\ UNCHANGED <<accepted, calls, device, missed>>

\* syncUserToDb: what is undefined in the record stays in the row; upserts of one
\* row may overtake each other.
Write(w) ==
    /\ w \in writes
    /\ writes' = writes \ {w}
    /\ row' = [w EXCEPT !.pin = IF @ = NoPin THEN row.pin ELSE @,
                        !.v = IF @ < row.v THEN row.v ELSE @]
    /\ doubts' = doubts \cup (IF w.v < row.v THEN {"overtaken"} ELSE {})
    /\ UNCHANGED <<mem, reads, version, verified, accepted, calls, device, missed>>

\* The error is logged and swallowed.
WriteFails(w) ==
    /\ "dbError" \in MayFail /\ doubts = {} /\ w \in writes
    /\ writes' = writes \ {w}
    /\ doubts' = doubts \cup {"lost"}
    /\ UNCHANGED <<mem, row, reads, version, verified, accepted, calls, device, missed>>

\* A restart reads the rows again, and serves requests meanwhile.
Restart ==
    /\ "restart" \in MayFail /\ doubts = {}
    /\ mem' = NoRecord
    /\ reads' = {row}
    /\ writes' = {}
    /\ doubts' = doubts \cup (IF writes # {} THEN {"lost"} ELSE {})
    /\ UNCHANGED <<row, version, verified, accepted, calls, device, missed>>

\* findOrFetchUserByIdentifier reads the row of a user who is not in memory.
LoginReads ==
    /\ mem = NoRecord
    /\ reads' = reads \cup {row}
    /\ UNCHANGED <<mem, row, writes, version, verified, doubts, accepted, calls, device,
                   missed>>

\* What was read replaces what memory has by now.
FillMemory(r) ==
    /\ r \in reads
    /\ mem' = r
    /\ reads' = reads \ {r}
    /\ doubts' = doubts \cup (IF r.v # version THEN {"stale"} ELSE {})
    /\ UNCHANGED <<row, writes, version, verified, accepted, calls, device, missed>>

ServerStep ==
    \/ \E n \in 1..MaxCalls : HandleSetPin(n)
    \/ OtherDeviceSetsPin \/ Verify \/ Restart \/ LoginReads
    \/ \E w \in writes : Write(w) \/ WriteFails(w)
    \/ \E r \in reads : FillMemory(r)

-----------------------------------------------------------------------------
(* setPin of auth.store.ts: the server first, then the secure store, then  *)
(* the memory of the app.                                                  *)

\* set-pin.tsx has let the user type a PIN twice, after the old one if the device
\* has one.  Leaving the screen does not end a save, so that two may overlap.
Save(n) ==
    /\ calls[n].at = "none" /\ \A m \in 1..(n - 1) : calls[m].at # "none"
    /\ \E p \in Pins : calls' = [calls EXCEPT ![n] = [pin |-> p, at |-> "asked"]]
    /\ UNCHANGED <<serverVars, accepted, device, missed>>

\* A request that is refused, or never arrives.
Refused(n) ==
    /\ calls[n].at = "asked"
    /\ calls' = [calls EXCEPT ![n].at = "over"]
    /\ UNCHANGED <<serverVars, accepted, device, missed>>

\* The network gives up: the request may still be on its way, or its answer was.
AnswerLost(n) ==
    /\ "netting" \in MayFail
    /\ \/ calls[n].at = "asked" /\ calls' = [calls EXCEPT ![n].at = "lost"] /\ UNCHANGED missed
       \/ calls[n].at = "handled" /\ calls' = [calls EXCEPT ![n].at = "over"] /\ missed' = TRUE
    /\ UNCHANGED <<serverVars, accepted, device>>

\* A plausible bug: the device keeps the PIN before the server has answered.
Store_First(n) ==
    /\ calls[n].at = "asked"
    /\ device' = [store |-> calls[n].pin, pin |-> calls[n].pin]
    /\ UNCHANGED <<serverVars, calls, accepted, missed>>

Store(n) ==
    /\ calls[n].at = "handled"
    /\ calls' = [calls EXCEPT ![n].at = "stored"]
    /\ device' = [device EXCEPT !.store = calls[n].pin]
    /\ UNCHANGED <<serverVars, accepted, missed>>

\* The answers of two saves may cross: what is missed is decided by the last one.
Publish(n) ==
    /\ calls[n].at = "stored"
    /\ calls' = [calls EXCEPT ![n].at = "done"]
    /\ device' = [device EXCEPT !.pin = calls[n].pin]
    /\ missed' = (accepted.call # n \/ device.store # calls[n].pin)
    /\ UNCHANGED <<serverVars, accepted>>

\* The app is killed and opened again: hydrate reads the secure store.
Kill ==
    /\ "kill" \in MayFail
    /\ calls' = [n \in 1..MaxCalls |->
                   CASE calls[n].at = "asked"                 -> [calls[n] EXCEPT !.at = "lost"]
                     [] calls[n].at \in {"handled", "stored"} -> [calls[n] EXCEPT !.at = "over"]
                     [] OTHER                                 -> calls[n]]
    /\ missed' = (missed \/ \E n \in 1..MaxCalls : \/ calls[n].at = "handled"
                                                   \/ calls[n].at = "stored" /\ accepted.call # n)
    /\ device' = [device EXCEPT !.pin = device.store]
    /\ UNCHANGED <<serverVars, accepted>>

DeviceStep ==
    \/ Kill
    \/ \E n \in 1..MaxCalls : Save(n) \/ Refused(n) \/ AnswerLost(n) \/ Store(n) \/ Publish(n)

UserRecordNext == ServerStep \/ DeviceStep

-----------------------------------------------------------------------------

\* What the server answered is in its memory and reaches the row, PIN and KYC
\* alike, unless an upsert was lost or overtaken, or memory was refilled with an
\* older row or was empty when the handler came.
RecordIsKept ==
    doubts = {} =>
        /\ mem # NoRecord => mem.pin = accepted.pin /\ (mem.kyc = "yes") = verified
        /\ writes = {} => row.pin = accepted.pin /\ (row.kyc = "yes") = verified

\* With no save under way, the PIN that unlocks the app is the PIN the server last
\* accepted, unless the device was cut off in the middle of a save, two saves
\* crossed, or the other device set it.
DeviceAgrees ==
    /\ \A n \in 1..MaxCalls : calls[n].at \notin {"asked", "handled", "stored"}
    /\ ~missed
    => device.pin = accepted.pin /\ device.store = accepted.pin

OnePin == RecordIsKept /\ DeviceAgrees
=============================================================================
