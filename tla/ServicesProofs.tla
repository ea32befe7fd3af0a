--------------------------- MODULE ServicesProofs ---------------------------
(***************************************************************************)
(* What the components of the API promise, for any number of logins,       *)
(* refreshes, reads, writes, checks, saves, deposits and requests, and for *)
(* every set of faults.                                                    *)
(*                                                                         *)
(* Each section is of one component: an inductive invariant, its           *)
(* preservation by each action, and the theorem.  Part (the lemma) is what *)
(* lets a section speak of one component alone.                            *)
(***************************************************************************)
EXTENDS Services, Integers, FiniteSets, FiniteSetTheorems, TLAPS

\* A step is one of the component that moves, or none.
LEMMA Part ==
    ASSUME [ServicesNext]_servicesVars
    PROVE  /\ UNCHANGED part
           /\ part = "accounts" => [Acc!AccountsNext]_accountVars
           /\ [part = "rates" /\ Rate!RatesNext]_ratesVars
           /\ part = "maintenance" => [Maint!MaintenanceNext]_maintenanceVars
           /\ \A p \in KycParts : part = p => [Kyc(p)!KycNext]_kycVars
           /\ part = "record" => [Rec!UserRecordNext]_recordVars
           /\ part = "numbers" => [Num!VirtualAccountsNext]_numberVars
           /\ part = "naira" => [Nai!NairaNext]_nairaVars
<1>1. CASE UNCHANGED servicesVars
  BY <1>1 DEF servicesVars
<1>2. CASE AccountsMove
  BY <1>2, ServicesAssumption DEF AccountsMove, OthersStay, OtherParts
<1>3. CASE RatesMove
  BY <1>3, ServicesAssumption DEF RatesMove, OthersStay, OtherParts
<1>4. CASE MaintenanceMoves
  BY <1>4, ServicesAssumption DEF MaintenanceMoves, OthersStay, OtherParts
<1>5. CASE KycMoves
  BY <1>5, ServicesAssumption DEF KycMoves, OthersStay, OtherParts
<1>6. CASE NairaMoves
  BY <1>6, ServicesAssumption DEF NairaMoves, OthersStay, OtherParts
<1>7. CASE RecordMoves
  BY <1>7, ServicesAssumption DEF RecordMoves, OthersStay, OtherParts
<1>8. CASE NumbersMove
  BY <1>8, ServicesAssumption DEF NumbersMove, OthersStay, OtherParts
<1> QED
  BY <1>1, <1>2, <1>3, <1>4, <1>5, <1>6, <1>7, <1>8 DEF ServicesNext

-----------------------------------------------------------------------------
(* The rate.                                                               *)

\* Under an override, the calls under way are those it overtook.
OverrideInv ==
    /\ DOMAIN fetch = Fetches /\ DOMAIN rate = {"shown", "override", "stale"}
    /\ rate.override => \A f \in Fetches : fetch[f].stage # "idle" => f \in overtaken

LEMMA OverrideSteps ==
    ASSUME OverrideInv, Rate!RatesNext
    PROVE  /\ OverrideInv'
           /\ rate.override /\ rate'.shown # rate.shown
                => \/ rate'.shown \in AdminRates
                   \/ \E f \in overtaken : fetch[f].stage # "idle" /\ fetch'[f].stage = "idle"
<1>1. CASE Rate!Tick \/ Rate!PollRateEngine
  BY <1>1 DEF OverrideInv, Rate!Tick, Rate!PollRateEngine
<1>2. ASSUME NEW f \in Fetches, Rate!EnsureFreshRate(f) PROVE OverrideInv' /\ UNCHANGED rate
  BY <1>2 DEF OverrideInv, Rate!EnsureFreshRate, Rate!MayRefresh
<1>3. ASSUME NEW f \in Fetches, Rate!ReadFeed(f) \/ Rate!FeedIsOld(f)
      PROVE  OverrideInv' /\ UNCHANGED rate
  BY <1>3 DEF OverrideInv, Rate!ReadFeed, Rate!FeedIsOld
<1>4. ASSUME NEW f \in Fetches, Rate!UseFeed(f) \/ Rate!UseProvider(f)
      PROVE  /\ OverrideInv'
             /\ rate.override => f \in overtaken
             /\ fetch[f].stage # "idle" /\ fetch'[f].stage = "idle"
  <2>1. /\ fetch[f].stage # "idle" /\ Rate!Ends(f)
        /\ rate'.override = rate.override /\ DOMAIN rate' = DOMAIN rate
    BY <1>4 DEF OverrideInv, Rate!UseFeed, Rate!UseProvider, Rate!Show
  <2> QED
    BY <2>1 DEF OverrideInv, Rate!Ends, Rate!Idle
<1>5. ASSUME NEW r \in AdminRates, Rate!SetRateOverride(r)
      PROVE  OverrideInv' /\ rate'.shown = r
  BY <1>5 DEF OverrideInv, Rate!SetRateOverride
<1> QED
  BY <1>1, <1>2, <1>3, <1>4, <1>5 DEF Rate!RatesNext, Rate!Tick, Rate!PollRateEngine

\* An override lasts: OverrideHolds, for any number of refreshes and overrides.
THEOREM OverridesHold == ServicesSpec => OverrideHolds
<1>1. ServicesInit => OverrideInv
  BY DEF ServicesInit, ComponentsInit, Rate!RatesInit, OverrideInv
<1>2. OverrideInv /\ [ServicesNext]_servicesVars => OverrideInv'
  BY Part, OverrideSteps DEF ratesVars, OverrideInv
<1>3. OverrideInv /\ [ServicesNext]_servicesVars =>
        [rate.override /\ rate'.shown # rate.shown
            => \/ rate'.shown \in AdminRates
               \/ \E f \in overtaken : fetch[f].stage # "idle" /\ fetch'[f].stage = "idle"
        ]_<<now, feed, rate, lastTry, fetch, overtaken>>
  BY Part, OverrideSteps DEF ratesVars
<1> QED
  BY <1>1, <1>2, <1>3, PTL DEF ServicesSpec, OverrideHolds, Rate!OverrideHolds, Rate!ratesVars

-----------------------------------------------------------------------------
(* The maintenance switch.                                                 *)

\* Value v was the row's at time t or later.
HeldSince(v, t) == v = row \/ until[v] >= t

\* What is cached, or is about to be, was the row's when the read for it began.
SwitchInv ==
    /\ Maint!MaintenanceTypeOK
    /\ lastFetchedAt <= clock
    /\ HeldSince(cache, lastFetchedAt) \/ cache \in crossed
    /\ \A g \in Gets : get[g].at <= clock
    /\ \A g \in Gets : get[g].stage = "read" => HeldSince(get[g].value, get[g].at)

\* A step of the clock or of a change leaves what was so.
LEMMA HeldStays ==
    ASSUME SwitchInv,
           UNCHANGED <<row, until>> \/ until' = [until EXCEPT ![row] = clock],
           NEW v \in Maint!Values, NEW t \in Int, t <= clock, HeldSince(v, t)
    PROVE  HeldSince(v, t)'
  BY DEF SwitchInv, HeldSince, Maint!MaintenanceTypeOK

LEMMA SwitchSteps ==
    ASSUME SwitchInv, Maint!MaintenanceNext
    PROVE  SwitchInv'
<1> USE ServicesAssumption DEF Maint!MaintenanceConstants
<1>t. /\ clock \in Int /\ lastFetchedAt \in Int /\ cache \in Maint!Values /\ row \in Maint!Values
      /\ \A g \in Gets : get[g].at \in Int /\ get[g].value \in Maint!Values
  BY DEF SwitchInv, Maint!MaintenanceTypeOK
<1>1. CASE Maint!Tick
  <2>1. clock' >= clock /\ clock' \in 0..SwitchHorizon
    BY <1>1 DEF Maint!Tick, SwitchInv, Maint!MaintenanceTypeOK
  <2> QED
    BY <1>1, <1>t, <2>1 DEF Maint!Tick, SwitchInv, HeldSince, Maint!MaintenanceTypeOK
<1>2. ASSUME NEW g \in Gets, Maint!Ask(g) PROVE SwitchInv'
  BY <1>2, <1>t DEF Maint!Ask, SwitchInv, HeldSince, Maint!MaintenanceTypeOK, Maint!Values
<1>3. ASSUME NEW g \in Gets, Maint!ReadRow(g) PROVE SwitchInv'
  BY <1>3, <1>t DEF Maint!ReadRow, SwitchInv, HeldSince, Maint!MaintenanceTypeOK
<1>4. ASSUME NEW g \in Gets, Maint!Answered(g) PROVE SwitchInv'
  BY <1>4, <1>t DEF Maint!Answered, SwitchInv, HeldSince, Maint!MaintenanceTypeOK, Maint!NoRead,
                    Maint!Values
<1>5. ASSUME NEW g \in Gets, Maint!ReadFails(g) PROVE SwitchInv'
  BY <1>5, <1>t DEF Maint!ReadFails, SwitchInv, HeldSince, Maint!MaintenanceTypeOK,
                    Maint!NoRead, Maint!Values
<1>6. ASSUME NEW s \in Sets, Maint!Upsert(s) PROVE SwitchInv'
  <2>1. Maint!MaintenanceTypeOK'
    BY <1>6, <1>t DEF Maint!Upsert, SwitchInv, Maint!MaintenanceTypeOK, Maint!Values
  <2>2. \A v \in Maint!Values, t \in Int : t <= clock /\ HeldSince(v, t) => HeldSince(v, t)'
    BY <1>6, <1>t, HeldStays DEF Maint!Upsert, Maint!Values
  <2> QED
    BY <1>6, <1>t, <2>1, <2>2 DEF Maint!Upsert, SwitchInv
<1>7. ASSUME NEW s \in Sets, Maint!CacheIt(s) PROVE SwitchInv'
  BY <1>7, <1>t DEF Maint!CacheIt, SwitchInv, HeldSince, Maint!MaintenanceTypeOK, Maint!Values
<1> QED
  BY <1>1, <1>2, <1>3, <1>4, <1>5, <1>6, <1>7 DEF Maint!MaintenanceNext

\* Maintenance is served for the cache's time to live: ServedIsRecent, for any
\* number of reads and changes and whatever order their answers come in.
THEOREM ServedValuesAreRecent == ServicesSpec => []ServedIsRecent
<1> DEFINE Inv == part = "maintenance" => SwitchInv
<1>1. ServicesInit => Inv
  BY ServicesAssumption
  DEF ServicesInit, ComponentsInit, Maint!MaintenanceInit, Maint!MaintenanceConstants,
      Maint!MaintenanceTypeOK, Maint!NoRead, Maint!Values, SwitchInv, HeldSince
<1>2. Inv /\ [ServicesNext]_servicesVars => Inv'
  <2>1. ASSUME SwitchInv, UNCHANGED maintenanceVars PROVE SwitchInv'
    BY <2>1 DEF maintenanceVars, SwitchInv, HeldSince, Maint!MaintenanceTypeOK
  <2> QED
    BY <2>1, Part, SwitchSteps
<1>3. Inv => ServedIsRecent
  BY ServicesAssumption
  DEF SwitchInv, HeldSince, ServedIsRecent, Maint!ServedIsRecent, Maint!CacheIsFresh,
      Maint!MaintenanceTypeOK, Maint!MaintenanceConstants
<1> QED
  BY <1>1, <1>2, <1>3, PTL DEF ServicesSpec

-----------------------------------------------------------------------------
(* The record of a user: the server.                                       *)

\* A record that holds what the server has answered.
IsCurrent(r) == r.pin = accepted.pin /\ (r.kyc = "yes") = verified

Copies == upserts \cup reads \cup {recordRow}

\* Until something goes wrong between memory and row, memory is current, so is every
\* copy of the last change, and one of them is the row or on its way to it.
CopiesAgree ==
    /\ \A r \in Copies : r.v = version => IsCurrent(r)
    /\ mem # Rec!NoRecord => mem.v = version /\ IsCurrent(mem)
    /\ recordRow.v = version \/ \E w \in upserts : w.v = version

RecordInv ==
    /\ Rec!UserRecordTypeOK
    /\ \A r \in Copies \cup {mem} : r.v <= version
    /\ accepted.pin = NoPin => \A r \in Copies \cup {mem} : r.pin = NoPin
    /\ doubts = {} => CopiesAgree

\* What a change of the record does.
LEMMA ChangeSteps ==
    ASSUME RecordInv, NEW rec \in Rec!Records, Rec!Change(rec),
           doubts = {} /\ mem # Rec!NoRecord => IsCurrent(rec)',
           accepted' \in [pin : Pins \cup {NoPin}, call : 0..MaxCalls],
           verified' \in BOOLEAN, missed' \in BOOLEAN,
           calls' \in [1..MaxCalls -> [pin : Pins \cup {NoPin}, at : Rec!Stages]],
           device' \in [store : Pins \cup {NoPin}, pin : Pins \cup {NoPin}],
           accepted'.pin = NoPin => accepted.pin = NoPin /\ rec.pin = NoPin
    PROVE  RecordInv'
<1> USE ServicesAssumption DEF Rec!RecordConstants
<1>1. /\ version' = version + 1 /\ version \in 0..MaxChanges /\ version' \in 0..MaxChanges
      /\ mem' \in Rec!Records /\ mem'.v = version' /\ mem'.pin = rec.pin /\ mem'.kyc = rec.kyc
      /\ upserts' = upserts \cup {mem'} /\ UNCHANGED <<recordRow, reads>>
      /\ doubts \subseteq doubts' /\ (doubts' = {} => mem # Rec!NoRecord)
      /\ doubts' \subseteq {"lost", "overtaken", "stale", "bare"}
  BY DEF Rec!Change, RecordInv, Rec!UserRecordTypeOK, Rec!Records
<1>2. Rec!UserRecordTypeOK'
  BY <1>1 DEF RecordInv, Rec!UserRecordTypeOK
<1>3. Copies \subseteq Rec!Records /\ (mem \in Rec!Records \/ mem = Rec!NoRecord)
  BY DEF Copies, RecordInv, Rec!UserRecordTypeOK
<1>4. \A r \in Copies : r.v \in Int /\ r.v <= version
  BY <1>3 DEF RecordInv, Rec!Records
<1>5. Copies' = Copies \cup {mem'}
  BY <1>1 DEF Copies
<1>6. \A r \in Copies \cup {mem'} : r.v <= version'
  BY <1>1, <1>4
<1>7. accepted'.pin = NoPin => \A r \in Copies' \cup {mem'} : r.pin = NoPin
  BY <1>1, <1>5 DEF RecordInv
<1>8. doubts' = {} => CopiesAgree'
  BY <1>1, <1>4, <1>5 DEF CopiesAgree, IsCurrent
<1> QED
  BY <1>2, <1>5, <1>6, <1>7, <1>8 DEF RecordInv

\* What leaves the record of changes as it is.
LEMMA CopySteps ==
    ASSUME RecordInv, Rec!UserRecordTypeOK', UNCHANGED <<version, verified, accepted>>,
           \A r \in Copies' \cup {mem'} :
              r \in Copies \cup {mem} \/ r = Rec!NoRecord \/ (r.v <= version /\ (accepted.pin = NoPin => r.pin = NoPin)),
           doubts' = {} => CopiesAgree'
    PROVE  RecordInv'
<1>1. Rec!NoRecord.v <= version /\ Rec!NoRecord.pin = NoPin
  BY DEF RecordInv, Rec!UserRecordTypeOK, Rec!NoRecord
<1> QED
  BY <1>1 DEF RecordInv

\* A save has a PIN.
CallPins == \A n \in 1..MaxCalls : calls[n].at # "none" => calls[n].pin \in Pins

\* setPin, the other device and the verification of the user.
LEMMA ServerChanges ==
    ASSUME RecordInv, CallPins,
           \/ \E n \in 1..MaxCalls : Rec!HandleSetPin(n)
           \/ Rec!OtherDeviceSetsPin \/ Rec!Verify
    PROVE  RecordInv'
<1>t. /\ Rec!Current \in Rec!Records
      /\ mem # Rec!NoRecord => Rec!Current = mem
      /\ accepted \in [pin : Pins \cup {NoPin}, call : 0..MaxCalls]
      /\ calls \in [1..MaxCalls -> [pin : Pins \cup {NoPin}, at : Rec!Stages]]
      /\ device \in [store : Pins \cup {NoPin}, pin : Pins \cup {NoPin}]
      /\ verified \in BOOLEAN /\ missed \in BOOLEAN
      /\ accepted.pin = NoPin => Rec!Current.pin = NoPin
      /\ MaxCalls \in Nat /\ MaxChanges \in Nat /\ NoPin \notin Pins
  BY ServicesAssumption
  DEF RecordInv, Rec!UserRecordTypeOK, Rec!Current, Rec!Records, Rec!NoRecord, Rec!RecordConstants
<1>c. doubts = {} /\ mem # Rec!NoRecord =>
        Rec!Current.pin = accepted.pin /\ (Rec!Current.kyc = "yes") = verified
  BY <1>t DEF RecordInv, CopiesAgree, IsCurrent
<1>1. ASSUME NEW n \in 1..MaxCalls, Rec!HandleSetPin(n) PROVE RecordInv'
  <2> DEFINE rec == [Rec!Current EXCEPT !.pin = calls[n].pin]
  <2>1. /\ Rec!Change(rec) /\ accepted' = [pin |-> calls[n].pin, call |-> n]
        /\ calls' \in [1..MaxCalls -> [pin : Pins \cup {NoPin}, at : Rec!Stages]]
        /\ missed' \in BOOLEAN /\ UNCHANGED <<verified, device>>
        /\ calls[n].pin \in Pins
    BY <1>1, <1>t DEF Rec!HandleSetPin, Rec!Stages, CallPins
  <2>2. rec \in Rec!Records /\ rec.pin = calls[n].pin /\ rec.kyc = Rec!Current.kyc
    BY <1>t DEF Rec!Records
  <2> HIDE DEF rec
  <2>3. doubts = {} /\ mem # Rec!NoRecord => rec.pin = accepted'.pin /\ (rec.kyc = "yes") = verified'
    BY <1>c, <2>1, <2>2
  <2>4. accepted' \in [pin : Pins \cup {NoPin}, call : 0..MaxCalls] /\ accepted'.pin # NoPin
    BY <1>t, <2>1
  <2> QED
    BY <1>t, <2>1, <2>2, <2>3, <2>4, ChangeSteps DEF IsCurrent
<1>2. ASSUME NEW p \in Pins, Rec!Change([Rec!Current EXCEPT !.pin = p]),
             accepted' = [pin |-> p, call |-> 0], missed' = TRUE,
             UNCHANGED <<verified, calls, device>>
      PROVE  RecordInv'
  <2> DEFINE rec == [Rec!Current EXCEPT !.pin = p]
  <2>1. Rec!Change(rec)
    BY <1>2
  <2>2. rec \in Rec!Records /\ rec.pin = p /\ rec.kyc = Rec!Current.kyc
    BY <1>t DEF Rec!Records
  <2> HIDE DEF rec
  <2>3. doubts = {} /\ mem # Rec!NoRecord => rec.pin = accepted'.pin /\ (rec.kyc = "yes") = verified'
    BY <1>c, <1>2, <2>2
  <2>4. accepted' \in [pin : Pins \cup {NoPin}, call : 0..MaxCalls] /\ accepted'.pin # NoPin
    BY <1>t, <1>2
  <2> QED
    BY <1>t, <1>2, <2>1, <2>2, <2>3, <2>4, ChangeSteps DEF IsCurrent
<1>3. CASE Rec!Verify
  <2> DEFINE rec == [Rec!Current EXCEPT !.kyc = "yes"]
  <2>1. Rec!Change(rec) /\ verified' = TRUE /\ UNCHANGED <<accepted, calls, device, missed>>
    BY <1>3 DEF Rec!Verify
  <2>2. rec \in Rec!Records /\ rec.pin = Rec!Current.pin /\ rec.kyc = "yes"
    BY <1>t DEF Rec!Records
  <2> HIDE DEF rec
  <2>3. doubts = {} /\ mem # Rec!NoRecord => rec.pin = accepted'.pin /\ (rec.kyc = "yes") = verified'
    BY <1>c, <2>1, <2>2
  <2> QED
    BY <1>t, <2>1, <2>2, <2>3, ChangeSteps DEF IsCurrent
<1> QED
  BY <1>1, <1>2, <1>3 DEF Rec!OtherDeviceSetsPin

\* The upserts, the reads and what becomes of them.
LEMMA ServerCopies ==
    ASSUME RecordInv,
           \/ Rec!Restart \/ Rec!LoginReads
           \/ \E w \in upserts : Rec!Write(w) \/ Rec!WriteFails(w)
           \/ \E r \in reads : Rec!FillMemory(r)
    PROVE  RecordInv'
<1>t. /\ upserts \subseteq Rec!Records /\ reads \subseteq Rec!Records /\ recordRow \in Rec!Records
      /\ mem \in Rec!Records \cup {Rec!NoRecord}
      /\ \A r \in Rec!Records : r.v \in Int
      /\ doubts \subseteq {"lost", "overtaken", "stale", "bare"}
      /\ doubts = {} => CopiesAgree
      /\ version \in Int
  BY DEF RecordInv, Rec!UserRecordTypeOK, Rec!Records
<1>1. CASE Rec!Restart
  <2>1. /\ mem' = Rec!NoRecord /\ reads' = {recordRow} /\ upserts' = {}
        /\ doubts' = {} => upserts = {} /\ doubts = {}
        /\ UNCHANGED <<recordRow, version, verified, accepted, calls, device, missed>>
        /\ doubts' \subseteq {"lost", "overtaken", "stale", "bare"}
    BY <1>1, <1>t DEF Rec!Restart
  <2>2. Rec!UserRecordTypeOK'
    BY <1>t, <2>1 DEF RecordInv, Rec!UserRecordTypeOK
  <2>3. doubts' = {} => CopiesAgree'
    BY <1>t, <2>1 DEF CopiesAgree, Copies, IsCurrent
  <2> QED
    BY <2>1, <2>2, <2>3, CopySteps DEF Copies
<1>2. CASE Rec!LoginReads
  <2>1. /\ reads' = reads \cup {recordRow}
        /\ UNCHANGED <<mem, recordRow, upserts, version, verified, doubts, accepted, calls,
                       device, missed>>
    BY <1>2 DEF Rec!LoginReads
  <2>2. Rec!UserRecordTypeOK'
    BY <1>t, <2>1 DEF RecordInv, Rec!UserRecordTypeOK
  <2>3. doubts' = {} => CopiesAgree'
    BY <1>t, <2>1 DEF CopiesAgree, Copies, IsCurrent
  <2> QED
    BY <2>1, <2>2, <2>3, CopySteps DEF Copies
<1>3. ASSUME NEW w \in upserts, Rec!Write(w) PROVE RecordInv'
  <2>1. /\ recordRow' \in Rec!Records /\ recordRow'.kyc = w.kyc
        /\ recordRow'.pin = (IF w.pin = NoPin THEN recordRow.pin ELSE w.pin)
        /\ recordRow'.v = (IF w.v < recordRow.v THEN recordRow.v ELSE w.v)
    BY <1>3, <1>t DEF Rec!Write, Rec!Records
  <2>2. /\ upserts' = upserts \ {w}
        /\ doubts' = {} => doubts = {} /\ ~(w.v < recordRow.v)
        /\ doubts' \subseteq {"lost", "overtaken", "stale", "bare"}
        /\ UNCHANGED <<mem, reads, version, verified, accepted, calls, device, missed>>
    BY <1>3, <1>t DEF Rec!Write
  <2>3. Rec!UserRecordTypeOK'
    BY <1>t, <2>1, <2>2 DEF RecordInv, Rec!UserRecordTypeOK
  <2>4. /\ recordRow'.v <= version
        /\ accepted.pin = NoPin => recordRow'.pin = NoPin /\ recordRow.pin = NoPin /\ w.pin = NoPin
    BY <1>t, <2>1 DEF RecordInv, Copies
  <2>5. doubts' = {} /\ recordRow'.v = version => IsCurrent(recordRow)'
    BY <1>t, <2>1, <2>2, <2>4 DEF CopiesAgree, Copies, IsCurrent
  <2>6. doubts' = {} => CopiesAgree'
    BY <1>t, <2>1, <2>2, <2>4, <2>5 DEF CopiesAgree, Copies, IsCurrent
  <2> QED
    BY <2>2, <2>3, <2>4, <2>6, CopySteps DEF Copies
<1>4. ASSUME NEW w \in upserts, Rec!WriteFails(w) PROVE RecordInv'
  <2>1. /\ upserts' = upserts \ {w} /\ doubts' # {}
        /\ doubts' \subseteq {"lost", "overtaken", "stale", "bare"}
        /\ UNCHANGED <<mem, recordRow, reads, version, verified, accepted, calls, device, missed>>
    BY <1>4, <1>t DEF Rec!WriteFails
  <2>2. Rec!UserRecordTypeOK'
    BY <1>t, <2>1 DEF RecordInv, Rec!UserRecordTypeOK
  <2> QED
    BY <2>1, <2>2, CopySteps DEF Copies
<1>5. ASSUME NEW r \in reads, Rec!FillMemory(r) PROVE RecordInv'
  <2>1. /\ mem' = r /\ reads' = reads \ {r}
        /\ doubts' = {} => doubts = {} /\ r.v = version
        /\ doubts' \subseteq {"lost", "overtaken", "stale", "bare"}
        /\ UNCHANGED <<recordRow, upserts, version, verified, accepted, calls, device, missed>>
    BY <1>5, <1>t DEF Rec!FillMemory
  <2>2. Rec!UserRecordTypeOK'
    BY <1>t, <2>1 DEF RecordInv, Rec!UserRecordTypeOK
  <2>3. doubts' = {} => CopiesAgree'
    BY <1>t, <2>1 DEF CopiesAgree, Copies, IsCurrent
  <2> QED
    BY <2>1, <2>2, <2>3, CopySteps DEF Copies
<1> QED
  BY <1>1, <1>2, <1>3, <1>4, <1>5

-----------------------------------------------------------------------------
(* The record of a user: the device.                                       *)

Saving(n) == calls[n].at \in {"handled", "stored"}

\* The save accepted last knows its PIN; and unless the device has missed it, the
\* last save of several to keep its PIN leaves the accepted one.
DeviceInv ==
    /\ CallPins
    /\ \A n \in 1..MaxCalls : accepted.call = n =>
          /\ accepted.pin = calls[n].pin
          /\ calls[n].at \notin {"none", "asked", "lost"}
    /\ ~missed /\ (\A n \in 1..MaxCalls : ~Saving(n))
          => device.pin = accepted.pin /\ device.store = accepted.pin
    /\ \A n \in 1..MaxCalls :
          /\ ~missed /\ accepted.call = n /\ calls[n].at = "stored"
          /\ \A m \in 1..MaxCalls \ {n} : calls[m].at # "stored"
          => device.store = calls[n].pin

LEMMA DeviceStays ==
    ASSUME DeviceInv, UNCHANGED <<calls, device>>,
           UNCHANGED <<accepted, missed>> \/ (missed' /\ accepted'.call = 0 /\ 0 \notin 1..MaxCalls)
    PROVE  DeviceInv'
  BY DEF DeviceInv, CallPins, Saving

\* The server's steps.
LEMMA ServerOnDevice ==
    ASSUME RecordInv, DeviceInv, Rec!ServerStep
    PROVE  DeviceInv'
<1>t. /\ accepted \in [pin : Pins \cup {NoPin}, call : 0..MaxCalls]
      /\ calls \in [1..MaxCalls -> [pin : Pins \cup {NoPin}, at : Rec!Stages]]
      /\ MaxCalls \in Nat
  BY ServicesAssumption DEF RecordInv, Rec!UserRecordTypeOK, Rec!RecordConstants
<1>1. ASSUME NEW n \in 1..MaxCalls, Rec!HandleSetPin(n) PROVE DeviceInv'
  <2>1. /\ calls[n].at \in {"asked", "lost"}
        /\ accepted' = [pin |-> calls[n].pin, call |-> n]
        /\ missed' = (missed \/ calls[n].at = "lost")
        /\ calls' = [calls EXCEPT ![n].at = IF @ = "asked" THEN "handled" ELSE "over"]
        /\ UNCHANGED device
    BY <1>1 DEF Rec!HandleSetPin
  <2>2. /\ \A m \in 1..MaxCalls : calls'[m].pin = calls[m].pin
        /\ \A m \in 1..MaxCalls \ {n} : calls'[m] = calls[m]
        /\ calls'[n].at = IF calls[n].at = "asked" THEN "handled" ELSE "over"
    BY <1>t, <2>1
  <2>3. accepted'.call = n /\ accepted'.pin = calls[n].pin
    BY <2>1
  <2>4. CallPins'
    BY <2>1, <2>2 DEF DeviceInv, CallPins
  <2>5. ~missed' => Saving(n)'
    BY <2>1, <2>2 DEF Saving
  <2>6. \A m \in 1..MaxCalls : accepted'.call = m =>
          m = n /\ calls'[m].pin = calls[n].pin /\ calls'[m].at \in {"handled", "over"}
    BY <2>1, <2>2, <2>3
  <2> QED
    BY <2>3, <2>4, <2>5, <2>6 DEF DeviceInv
<1>2. CASE Rec!OtherDeviceSetsPin
  BY <1>2, <1>t, DeviceStays DEF Rec!OtherDeviceSetsPin
<1>3. CASE UNCHANGED <<accepted, missed, calls, device>>
  BY <1>3, DeviceStays
<1> QED
  BY <1>1, <1>2, <1>3
  DEF Rec!ServerStep, Rec!Verify, Rec!Restart, Rec!LoginReads, Rec!Write, Rec!WriteFails,
      Rec!FillMemory

\* The device's own.
LEMMA DeviceSteps ==
    ASSUME RecordInv, DeviceInv, Rec!DeviceStep
    PROVE  DeviceInv' /\ RecordInv'
<1>t. /\ accepted \in [pin : Pins \cup {NoPin}, call : 0..MaxCalls]
      /\ calls \in [1..MaxCalls -> [pin : Pins \cup {NoPin}, at : Rec!Stages]]
      /\ device \in [store : Pins \cup {NoPin}, pin : Pins \cup {NoPin}]
      /\ missed \in BOOLEAN
  BY DEF RecordInv, Rec!UserRecordTypeOK
<1>r. ASSUME UNCHANGED <<Rec!serverVars, accepted>>, missed' \in BOOLEAN,
             calls' \in [1..MaxCalls -> [pin : Pins \cup {NoPin}, at : Rec!Stages]],
             device' \in [store : Pins \cup {NoPin}, pin : Pins \cup {NoPin}]
      PROVE  RecordInv'
  BY <1>r DEF Rec!serverVars, RecordInv, Rec!UserRecordTypeOK, Copies, CopiesAgree, IsCurrent
<1>1. CASE Rec!Kill
  <2>1. /\ \A n \in 1..MaxCalls : calls'[n].pin = calls[n].pin /\ ~Saving(n)'
        /\ \A n \in 1..MaxCalls : calls'[n].at = "none" <=> calls[n].at = "none"
        /\ \A n \in 1..MaxCalls : calls'[n].at \in {"asked", "lost"} => calls[n].at \in {"asked", "lost"}
        /\ calls' \in [1..MaxCalls -> [pin : Pins \cup {NoPin}, at : Rec!Stages]]
    BY <1>1, <1>t DEF Rec!Kill, Saving, Rec!Stages
  <2>2. /\ UNCHANGED <<Rec!serverVars, accepted>>
        /\ device'.pin = device.store /\ device'.store = device.store
        /\ device' \in [store : Pins \cup {NoPin}, pin : Pins \cup {NoPin}]
        /\ missed' = (missed \/ \E n \in 1..MaxCalls : \/ calls[n].at = "handled"
                                                       \/ calls[n].at = "stored" /\ accepted.call # n)
    BY <1>1, <1>t DEF Rec!Kill
  <2>3. ASSUME ~missed' PROVE device'.pin = accepted.pin /\ device'.store = accepted.pin
    <3>1. /\ ~missed
          /\ \A n \in 1..MaxCalls : /\ calls[n].at # "handled"
                                    /\ calls[n].at = "stored" => accepted.call = n
      BY <2>2, <2>3
    <3>2. CASE \E n \in 1..MaxCalls : calls[n].at = "stored"
      BY <2>2, <3>1, <3>2 DEF DeviceInv
    <3>3. CASE \A n \in 1..MaxCalls : calls[n].at # "stored"
      BY <2>2, <3>1, <3>3 DEF DeviceInv, Saving
    <3> QED
      BY <3>2, <3>3
  <2>4. missed' \in BOOLEAN /\ RecordInv'
    BY <1>r, <2>1, <2>2
  <2>5. CallPins'
    BY <2>1 DEF DeviceInv, CallPins
  <2>6. \A n \in 1..MaxCalls : accepted.call = n =>
          /\ accepted.pin = calls'[n].pin
          /\ calls'[n].at \notin {"none", "asked", "lost"}
    BY <2>1 DEF DeviceInv
  <2>7. \A n \in 1..MaxCalls : calls'[n].at # "stored"
    BY <2>1 DEF Saving
  <2> QED
    BY <2>2, <2>3, <2>4, <2>5, <2>6, <2>7 DEF DeviceInv
<1>2. ASSUME NEW n \in 1..MaxCalls, NEW c \in [pin : Pins \cup {NoPin}, at : Rec!Stages],
             calls' = [calls EXCEPT ![n] = c]
      PROVE  /\ calls' \in [1..MaxCalls -> [pin : Pins \cup {NoPin}, at : Rec!Stages]]
             /\ calls'[n] = c
             /\ \A m \in 1..MaxCalls \ {n} : calls'[m] = calls[m]
  BY <1>2, <1>t
<1>3. ASSUME NEW n \in 1..MaxCalls, Rec!Save(n) PROVE DeviceInv' /\ RecordInv'
  <2>1. PICK p \in Pins : calls' = [calls EXCEPT ![n] = [pin |-> p, at |-> "asked"]]
    BY <1>3 DEF Rec!Save
  <2>2. /\ calls[n].at = "none"
        /\ UNCHANGED <<Rec!serverVars, accepted, device, missed>>
    BY <1>3 DEF Rec!Save
  <2>3. [pin |-> p, at |-> "asked"] \in [pin : Pins \cup {NoPin}, at : Rec!Stages]
    BY DEF Rec!Stages
  <2>4. /\ calls' \in [1..MaxCalls -> [pin : Pins \cup {NoPin}, at : Rec!Stages]]
        /\ calls'[n].pin = p /\ calls'[n].at = "asked"
        /\ \A m \in 1..MaxCalls \ {n} : calls'[m] = calls[m]
    BY <1>2, <2>1, <2>3
  <2>5. DeviceInv'
    BY <2>2, <2>4 DEF DeviceInv, CallPins, Saving
  <2> QED
    BY <1>r, <1>t, <2>2, <2>4, <2>5
<1>4. ASSUME NEW n \in 1..MaxCalls, Rec!Refused(n) \/ Rec!AnswerLost(n)
      PROVE  DeviceInv' /\ RecordInv'
  <2>1. PICK to \in {"over", "lost"} :
          /\ calls' = [calls EXCEPT ![n] = [calls[n] EXCEPT !.at = to]]
          /\ to = "lost" => calls[n].at = "asked"
    BY <1>4, <1>t DEF Rec!Refused, Rec!AnswerLost
  <2>2. /\ calls[n].at \in {"asked", "handled"}
        /\ missed' = missed \/ missed'
        /\ missed' \in BOOLEAN
        /\ calls[n].at = "asked" => missed' = missed
        /\ calls[n].at = "handled" => missed'
        /\ UNCHANGED <<Rec!serverVars, accepted, device>>
    BY <1>4, <1>t DEF Rec!Refused, Rec!AnswerLost
  <2>3. [calls[n] EXCEPT !.at = to] \in [pin : Pins \cup {NoPin}, at : Rec!Stages]
    BY <1>t DEF Rec!Stages
  <2>4. /\ calls' \in [1..MaxCalls -> [pin : Pins \cup {NoPin}, at : Rec!Stages]]
        /\ calls'[n].pin = calls[n].pin /\ calls'[n].at = to
        /\ \A m \in 1..MaxCalls \ {n} : calls'[m] = calls[m]
    BY <1>2, <1>t, <2>1, <2>3
  <2>5. DeviceInv'
    BY <2>1, <2>2, <2>4 DEF DeviceInv, CallPins, Saving
  <2> QED
    BY <1>r, <1>t, <2>2, <2>4, <2>5
<1>5. ASSUME NEW n \in 1..MaxCalls, Rec!Store(n) PROVE DeviceInv' /\ RecordInv'
  <2>1. /\ calls[n].at = "handled"
        /\ calls' = [calls EXCEPT ![n] = [calls[n] EXCEPT !.at = "stored"]]
        /\ device'.store = calls[n].pin /\ device'.pin = device.pin
        /\ device' \in [store : Pins \cup {NoPin}, pin : Pins \cup {NoPin}]
        /\ UNCHANGED <<Rec!serverVars, accepted, missed>>
    BY <1>5, <1>t DEF Rec!Store
  <2>2. [calls[n] EXCEPT !.at = "stored"] \in [pin : Pins \cup {NoPin}, at : Rec!Stages]
    BY <1>t DEF Rec!Stages
  <2>3. /\ calls' \in [1..MaxCalls -> [pin : Pins \cup {NoPin}, at : Rec!Stages]]
        /\ calls'[n].pin = calls[n].pin /\ calls'[n].at = "stored"
        /\ \A m \in 1..MaxCalls \ {n} : calls'[m] = calls[m]
    BY <1>2, <1>t, <2>1, <2>2
  <2>4. DeviceInv'
    BY <2>1, <2>3 DEF DeviceInv, CallPins, Saving
  <2> QED
    BY <1>r, <1>t, <2>1, <2>3, <2>4
<1>6. ASSUME NEW n \in 1..MaxCalls, Rec!Publish(n) PROVE DeviceInv' /\ RecordInv'
  <2>1. /\ calls[n].at = "stored"
        /\ calls' = [calls EXCEPT ![n] = [calls[n] EXCEPT !.at = "done"]]
        /\ device'.pin = calls[n].pin /\ device'.store = device.store
        /\ device' \in [store : Pins \cup {NoPin}, pin : Pins \cup {NoPin}]
        /\ missed' = (accepted.call # n \/ device.store # calls[n].pin)
        /\ UNCHANGED <<Rec!serverVars, accepted>>
    BY <1>6, <1>t DEF Rec!Publish
  <2>2. [calls[n] EXCEPT !.at = "done"] \in [pin : Pins \cup {NoPin}, at : Rec!Stages]
    BY <1>t DEF Rec!Stages
  <2>3. /\ calls' \in [1..MaxCalls -> [pin : Pins \cup {NoPin}, at : Rec!Stages]]
        /\ calls'[n].pin = calls[n].pin /\ calls'[n].at = "done"
        /\ \A m \in 1..MaxCalls \ {n} : calls'[m] = calls[m]
    BY <1>2, <1>t, <2>1, <2>2
  <2>4. DeviceInv'
    BY <2>1, <2>3 DEF DeviceInv, CallPins, Saving
  <2> QED
    BY <1>r, <1>t, <2>1, <2>3, <2>4
<1> QED
  BY <1>1, <1>3, <1>4, <1>5, <1>6 DEF Rec!DeviceStep

\* One PIN, one KYC status, in memory, row and device: OnePin, for any number of
\* PINs, saves and changes.
THEOREM OnePinEverywhere == ServicesSpec => []OnePin
<1> DEFINE Inv == part = "record" => RecordInv /\ DeviceInv
<1>1. ServicesInit => Inv
  <2> SUFFICES ASSUME Rec!UserRecordInit PROVE RecordInv /\ DeviceInv
    BY DEF ServicesInit, ComponentsInit
  <2>1. MaxCalls \in Nat /\ MaxChanges \in Nat
    BY ServicesAssumption DEF Rec!RecordConstants
  <2>2. recordRow \in Rec!Records /\ recordRow # Rec!NoRecord
    BY <2>1 DEF Rec!UserRecordInit, Rec!Records, Rec!NoRecord
  <2>3. Rec!UserRecordTypeOK
    <3>1. /\ mem = recordRow /\ version \in 0..MaxChanges
          /\ upserts = {} /\ reads = {} /\ doubts = {}
          /\ accepted \in [pin : Pins \cup {NoPin}, call : 0..MaxCalls]
          /\ device \in [store : Pins \cup {NoPin}, pin : Pins \cup {NoPin}]
      BY <2>1 DEF Rec!UserRecordInit
    <3>2. calls \in [1..MaxCalls -> [pin : Pins \cup {NoPin}, at : Rec!Stages]]
      BY DEF Rec!UserRecordInit, Rec!Stages
    <3>3. verified \in BOOLEAN /\ missed \in BOOLEAN
      BY DEF Rec!UserRecordInit
    <3> QED
      BY <2>2, <3>1, <3>2, <3>3 DEF Rec!UserRecordTypeOK
  <2>4. /\ Copies = {recordRow} /\ mem = recordRow
        /\ recordRow.v = 0 /\ recordRow.pin = NoPin /\ recordRow.kyc = "no"
        /\ version = 0 /\ accepted.pin = NoPin /\ verified = FALSE
    BY DEF Rec!UserRecordInit, Copies
  <2>5. IsCurrent(recordRow)
    BY <2>4 DEF IsCurrent
  <2>6. RecordInv
    BY <2>5, <2>3, <2>4 DEF RecordInv, CopiesAgree, IsCurrent
  <2>7. DeviceInv
    BY <2>1 DEF Rec!UserRecordInit, DeviceInv, CallPins, Saving
  <2> QED
    BY <2>6, <2>7
<1>2. Inv /\ [ServicesNext]_servicesVars => Inv'
  <2>1. ASSUME RecordInv, DeviceInv, Rec!UserRecordNext PROVE RecordInv' /\ DeviceInv'
    BY <2>1, ServerChanges, ServerCopies, ServerOnDevice, DeviceSteps
    DEF Rec!UserRecordNext, Rec!ServerStep, DeviceInv
  <2>2. ASSUME RecordInv, DeviceInv, UNCHANGED recordVars PROVE RecordInv' /\ DeviceInv'
    BY <2>2 DEF recordVars, RecordInv, Rec!UserRecordTypeOK, Copies, CopiesAgree, IsCurrent,
                DeviceInv, CallPins, Saving
  <2> QED
    BY <2>1, <2>2, Part
<1>3. Inv => OnePin
  <2> SUFFICES ASSUME RecordInv, DeviceInv PROVE Rec!UserRecordTypeOK /\ Rec!OnePin
    BY DEF OnePin
  <2>1. Rec!RecordIsKept
    BY DEF RecordInv, CopiesAgree, Copies, IsCurrent, Rec!RecordIsKept
  <2>2. Rec!DeviceAgrees
    BY DEF DeviceInv, Saving, Rec!DeviceAgrees
  <2> QED
    BY <2>1, <2>2 DEF RecordInv, Rec!OnePin
<1> QED
  BY <1>1, <1>2, <1>3, PTL DEF ServicesSpec

-----------------------------------------------------------------------------
(* The naira accounts.                                                     *)

\* Numbers kept, read and about to be written are those of their user, and what a
\* deposit was told when it was paid is still so.
NumbersInv ==
    /\ Num!VirtualAccountsTypeOK
    /\ Num!ListsAreOwn
    /\ \A u \in Num!Owners : reading[u] # {Num!None} => \A n \in reading[u] : Asker[n] = u
    /\ \A q \in Asks : vaRequest[q].at = "writing" =>
          vaRequest[q].number \in Asks /\ Asker[vaRequest[q].number] = Asker[q]
    /\ \A d \in Transfers :
          /\ deposit[d].promised => deposit[d].number \in promised
          /\ deposit[d].at # "none" => deposit[d].number \in Asks
    /\ Num!PromisedIsCredited

LEMMA NumberTypes ==
    ASSUME NumbersInv
    PROVE  /\ \A q \in Asks : Asker[q] \in Num!Owners
           /\ Num!None \notin Asks
           /\ issued \subseteq Asks /\ vaShown \subseteq Asks /\ promised \subseteq vaShown
           /\ vaRequest \in [Asks -> [at : Num!Stages, number : Asks \cup {Num!None}]]
           /\ vaVerified \in [Num!Owners -> {"no", "memory", "row"}]
           /\ vaMemory \in [Num!Owners -> SUBSET Asks]
           /\ vaRows \subseteq Asks \X Num!Owners
           /\ reading \in [Num!Owners -> (SUBSET Asks) \cup {{Num!None}}]
           /\ deposit \in [Transfers -> [at : {"none", "paid", "credited", "parked", "lost"},
                              number : Asks \cup {Num!None}, to : Num!Owners \cup {NoId},
                              promised : BOOLEAN]]
  BY ServicesAssumption
  DEF NumbersInv, Num!VirtualAccountsTypeOK, Num!Numbers, Num!Owners, Num!NumberConstants

\* A request: it moves, and what it gets is its user's.
LEMMA RequestSteps ==
    ASSUME NumbersInv, NEW q \in Asks,
           Num!Start(q) \/ Num!IssueFails(q) \/ Num!Issued(q) \/ Num!Written(q) \/ Num!WriteFails(q)
    PROVE  NumbersInv'
<1> USE NumberTypes
<1>1. ASSUME NEW from \in Num!Stages, NEW to \in Num!Stages, NEW n \in Asks \cup {Num!None},
             Num!Moves(q, from, to, n)
      PROVE  /\ vaRequest' \in [Asks -> [at : Num!Stages, number : Asks \cup {Num!None}]]
             /\ vaRequest'[q].at = to /\ vaRequest'[q].number = n
             /\ \A o \in Asks \ {q} : vaRequest'[o] = vaRequest[o]
  BY <1>1 DEF Num!Moves
<1>2. CASE Num!Start(q)
  <2>1. /\ vaRequest' \in [Asks -> [at : Num!Stages, number : Asks \cup {Num!None}]]
        /\ vaRequest'[q].at # "writing"
        /\ \A o \in Asks \ {q} : vaRequest'[o] = vaRequest[o]
    BY <1>1, <1>2 DEF Num!Start, Num!Stages
  <2>2. UNCHANGED <<issued, vaVerified, vaMemory, vaRows, reading, vaShown, promised, deposit>>
    BY <1>2 DEF Num!Start
  <2> QED
    BY <2>1, <2>2 DEF NumbersInv, Num!VirtualAccountsTypeOK, Num!Numbers, Num!ListsAreOwn,
                      Num!RowsOf, Num!PromisedIsCredited
<1>3. CASE Num!IssueFails(q)
  <2>1. /\ vaRequest' \in [Asks -> [at : Num!Stages, number : Asks \cup {Num!None}]]
        /\ vaRequest'[q].at # "writing"
        /\ \A o \in Asks \ {q} : vaRequest'[o] = vaRequest[o]
    BY <1>1, <1>3 DEF Num!IssueFails, Num!Stages
  <2>2. /\ UNCHANGED <<vaVerified, vaMemory, vaRows, reading, vaShown, promised, deposit>>
        /\ issued' \subseteq Asks
    BY <1>3 DEF Num!IssueFails, Num!Issuable
  <2> QED
    BY <2>1, <2>2 DEF NumbersInv, Num!VirtualAccountsTypeOK, Num!Numbers, Num!ListsAreOwn,
                      Num!RowsOf, Num!PromisedIsCredited
<1>4. CASE Num!Issued(q)
  <2>1. PICK n \in Num!Issuable(q) :
          /\ Num!Moves(q, "issuing", "writing", n)
          /\ issued' = issued \cup {n}
          /\ vaMemory' = [vaMemory EXCEPT ![Asker[q]] = @ \cup {n}]
    BY <1>4 DEF Num!Issued
  <2>2. n \in Asks /\ Asker[n] = Asker[q]
    BY DEF Num!Issuable
  <2>3. /\ vaRequest' \in [Asks -> [at : Num!Stages, number : Asks \cup {Num!None}]]
        /\ vaRequest'[q].number = n
        /\ \A o \in Asks \ {q} : vaRequest'[o] = vaRequest[o]
    BY <1>1, <2>1, <2>2 DEF Num!Stages
  <2>4. /\ vaMemory' \in [Num!Owners -> SUBSET Asks]
        /\ \A u \in Num!Owners : \A m \in vaMemory'[u] : m \in vaMemory[u] \/ (m = n /\ u = Asker[q])
    BY <2>1, <2>2
  <2>5. /\ UNCHANGED <<vaRows, reading, vaShown, promised, deposit>>
        /\ vaVerified' \in [Num!Owners -> {"no", "memory", "row"}]
    BY <1>4 DEF Num!Issued
  <2>6. Num!ListsAreOwn'
    BY <2>2, <2>4, <2>5 DEF NumbersInv, Num!ListsAreOwn, Num!RowsOf
  <2>7. Num!VirtualAccountsTypeOK'
    BY <2>1, <2>2, <2>3, <2>4, <2>5 DEF Num!VirtualAccountsTypeOK, Num!Numbers
  <2> QED
    BY <2>2, <2>3, <2>5, <2>6, <2>7 DEF NumbersInv, Num!PromisedIsCredited
<1>5. CASE Num!Written(q) \/ Num!WriteFails(q)
  <2> DEFINE n == vaRequest[q].number
  <2>1. vaRequest[q].at = "writing"
    BY <1>5 DEF Num!Written, Num!WriteFails, Num!Moves
  <2>2. n \in Asks /\ Asker[n] = Asker[q]
    BY <2>1 DEF NumbersInv
  <2>3. /\ vaRequest' \in [Asks -> [at : Num!Stages, number : Asks \cup {Num!None}]]
        /\ vaRequest'[q].at # "writing"
        /\ \A o \in Asks \ {q} : vaRequest'[o] = vaRequest[o]
    BY <1>1, <1>5, <2>2 DEF Num!Written, Num!WriteFails, Num!Stages
  <2>4. /\ UNCHANGED <<issued, vaVerified, vaMemory, reading, deposit>>
        /\ vaShown \subseteq vaShown' /\ vaShown' \subseteq Asks
        /\ promised' \subseteq vaShown' /\ promised \subseteq promised'
    BY <1>5, <2>2 DEF Num!Written, Num!WriteFails
  <2>5. /\ vaRows' \in {vaRows, vaRows \cup {<<n, Asker[q]>>}}
        /\ promised' \in {promised, promised \cup {n}}
        /\ promised' # promised => vaRows' = vaRows \cup {<<n, Asker[q]>>}
    BY <1>5 DEF Num!Written, Num!WriteFails
  <2> HIDE DEF n
  <2>6. vaRows' \subseteq Asks \X Num!Owners /\ vaRows \subseteq vaRows'
    BY <2>2, <2>5
  <2>7. \A u \in Num!Owners : \A m \in Num!RowsOf(u)' : m \in Num!RowsOf(u) \/ Asker[m] = u
    BY <2>2, <2>5 DEF Num!RowsOf
  <2>8. \A m \in promised' : <<m, Asker[m]>> \in vaRows'
    BY <2>2, <2>5, <2>6 DEF NumbersInv, Num!ListsAreOwn
  <2>9. Num!ListsAreOwn'
    BY <2>4, <2>7, <2>8 DEF NumbersInv, Num!ListsAreOwn
  <2>10. Num!VirtualAccountsTypeOK'
    BY <2>3, <2>4, <2>6 DEF Num!VirtualAccountsTypeOK, Num!Numbers
  <2> QED
    BY <2>3, <2>4, <2>9, <2>10 DEF NumbersInv, Num!PromisedIsCredited
<1> QED
  BY <1>2, <1>3, <1>4, <1>5

\* The list of a user's numbers, the upsert of his status, and a restart.
LEMMA ListSteps ==
    ASSUME NumbersInv,
           \/ \E u \in Num!Owners : Num!VerifiedRow(u) \/ Num!List(u) \/ Num!ListReads(u) \/ Num!ListKeeps(u)
           \/ Num!Restart
    PROVE  NumbersInv'
<1> USE NumberTypes
<1>1. ASSUME NEW u \in Num!Owners, Num!VerifiedRow(u) \/ Num!List(u) PROVE NumbersInv'
  <2>1. /\ UNCHANGED <<issued, vaRequest, vaMemory, vaRows, reading, promised, deposit>>
        /\ vaVerified' \in [Num!Owners -> {"no", "memory", "row"}]
        /\ vaShown' \subseteq Asks /\ promised \subseteq vaShown'
    BY <1>1 DEF Num!VerifiedRow, Num!List
  <2> QED
    BY <2>1 DEF NumbersInv, Num!VirtualAccountsTypeOK, Num!Numbers, Num!ListsAreOwn,
                Num!RowsOf, Num!PromisedIsCredited
<1>2. ASSUME NEW u \in Num!Owners, Num!ListReads(u) PROVE NumbersInv'
  <2>1. /\ UNCHANGED <<issued, vaRequest, vaVerified, vaMemory, vaRows, vaShown, promised, deposit>>
        /\ reading' = [reading EXCEPT ![u] = Num!RowsOf(u)]
        /\ Num!RowsOf(u) \in SUBSET Asks
    BY <1>2 DEF Num!ListReads, Num!RowsOf, Num!Numbers
  <2>2. reading' \in [Num!Owners -> (SUBSET Asks) \cup {{Num!None}}]
    BY <2>1
  <2>3. \A o \in Num!Owners : reading'[o] # {Num!None} => \A n \in reading'[o] : Asker[n] = o
    BY <2>1 DEF NumbersInv, Num!ListsAreOwn
  <2> QED
    BY <2>1, <2>2, <2>3 DEF NumbersInv, Num!VirtualAccountsTypeOK, Num!Numbers, Num!ListsAreOwn,
                            Num!RowsOf, Num!PromisedIsCredited
<1>3. ASSUME NEW u \in Num!Owners, Num!ListKeeps(u) PROVE NumbersInv'
  <2>1. /\ reading[u] # {Num!None}
        /\ vaMemory' = [vaMemory EXCEPT ![u] = IF reading[u] = {} THEN @ ELSE reading[u]]
        /\ vaShown' = vaShown \cup vaMemory'[u]
        /\ reading' = [reading EXCEPT ![u] = {Num!None}]
        /\ UNCHANGED <<issued, vaRequest, vaVerified, vaRows, promised, deposit>>
    BY <1>3 DEF Num!ListKeeps
  <2>2. reading[u] \in SUBSET Asks /\ \A n \in reading[u] : Asker[n] = u
    BY <2>1 DEF NumbersInv
  <2>3. /\ vaMemory' \in [Num!Owners -> SUBSET Asks]
        /\ \A o \in Num!Owners : \A n \in vaMemory'[o] : n \in vaMemory[o] \/ Asker[n] = o
    BY <2>1, <2>2
  <2>4. /\ reading' \in [Num!Owners -> (SUBSET Asks) \cup {{Num!None}}]
        /\ \A o \in Num!Owners : reading'[o] # {Num!None} => \A n \in reading'[o] : Asker[n] = o
    BY <2>1 DEF NumbersInv
  <2>5. Num!ListsAreOwn'
    BY <2>1, <2>3 DEF NumbersInv, Num!ListsAreOwn, Num!RowsOf
  <2> QED
    BY <2>1, <2>3, <2>4, <2>5
    DEF NumbersInv, Num!VirtualAccountsTypeOK, Num!Numbers, Num!PromisedIsCredited
<1>4. CASE Num!Restart
  <2>1. /\ vaMemory' \in [Num!Owners -> SUBSET Asks] /\ \A u \in Num!Owners : vaMemory'[u] = {}
        /\ reading' \in [Num!Owners -> (SUBSET Asks) \cup {{Num!None}}]
        /\ \A u \in Num!Owners : reading'[u] = {Num!None}
        /\ vaVerified' \in [Num!Owners -> {"no", "memory", "row"}]
        /\ UNCHANGED <<issued, vaRows, vaShown, promised, deposit>>
    BY <1>4 DEF Num!Restart
  <2>2. /\ vaRequest' \in [Asks -> [at : Num!Stages, number : Asks \cup {Num!None}]]
        /\ \A q \in Asks : vaRequest'[q].at # "writing"
    BY <1>4 DEF Num!Restart, Num!Stages
  <2> QED
    BY <2>1, <2>2 DEF NumbersInv, Num!VirtualAccountsTypeOK, Num!Numbers, Num!ListsAreOwn,
                      Num!RowsOf, Num!PromisedIsCredited
<1> QED
  BY <1>1, <1>2, <1>3, <1>4

\* A transfer and its webhook.
LEMMA TransferSteps ==
    ASSUME NumbersInv, NEW d \in Transfers,
           \/ \E n \in Num!Numbers : Num!Pay(d, n)
           \/ Num!NamedCustomer(d) \/ Num!ByRow(d) \/ Num!Parked(d) \/ Num!LookupFails(d)
    PROVE  NumbersInv'
<1> USE NumberTypes
<1> DEFINE Kinds == [at : {"none", "paid", "credited", "parked", "lost"},
                     number : Asks \cup {Num!None}, to : Num!Owners \cup {NoId},
                     promised : BOOLEAN]
<1>1. ASSUME NEW rec \in Kinds, deposit' = [deposit EXCEPT ![d] = rec],
             UNCHANGED <<issued, vaRequest, vaVerified, vaMemory, vaRows, reading, vaShown, promised>>,
             rec.promised => rec.number \in promised,
             rec.number \in Asks,
             rec.at = "parked" => ~rec.promised,
             rec.at = "credited" => rec.to = Asker[rec.number]
      PROVE  NumbersInv'
  <2>1. deposit' \in [Transfers -> Kinds]
    BY <1>1
  <2>2. deposit'[d] = rec /\ \A o \in Transfers \ {d} : deposit'[o] = deposit[o]
    BY <1>1
  <2>3. Num!VirtualAccountsTypeOK'
    BY <1>1, <2>1 DEF NumbersInv, Num!VirtualAccountsTypeOK, Num!Numbers
  <2>4. Num!PromisedIsCredited'
    BY <1>1, <2>2 DEF NumbersInv, Num!PromisedIsCredited
  <2>5. \A o \in Transfers : /\ deposit'[o].promised => deposit'[o].number \in promised
                             /\ deposit'[o].at # "none" => deposit'[o].number \in Asks
    BY <1>1, <2>2 DEF NumbersInv
  <2> HIDE DEF Kinds
  <2> QED
    BY <1>1, <2>3, <2>4, <2>5 DEF NumbersInv, Num!ListsAreOwn, Num!RowsOf
<1>2. ASSUME NEW n \in Num!Numbers, Num!Pay(d, n) PROVE NumbersInv'
  <2> DEFINE rec == [at |-> "paid", number |-> n, to |-> NoId, promised |-> n \in promised]
  <2>1. rec \in Kinds /\ deposit' = [deposit EXCEPT ![d] = rec]
    BY <1>2 DEF Num!Pay, Num!Numbers
  <2>2. /\ rec.promised => rec.number \in promised
        /\ rec.number \in Asks /\ rec.at = "paid"
    BY DEF Num!Numbers
  <2>3. UNCHANGED <<issued, vaRequest, vaVerified, vaMemory, vaRows, reading, vaShown, promised>>
    BY <1>2 DEF Num!Pay
  <2> HIDE DEF rec, Kinds
  <2> QED
    BY <1>1, <2>1, <2>2, <2>3
<1>3. ASSUME NEW at \in {"credited", "parked", "lost"}, NEW u \in Num!Owners \cup {NoId},
             Num!Resolve(d, at, u),
             at = "parked" => ~deposit[d].promised,
             at = "credited" => u = Asker[deposit[d].number]
      PROVE  NumbersInv'
  <2> DEFINE rec == [deposit[d] EXCEPT !.at = at, !.to = u]
  <2>1. /\ rec \in Kinds /\ rec.at = at /\ rec.to = u
        /\ rec.promised = deposit[d].promised /\ rec.number = deposit[d].number
    OBVIOUS
  <2>2. /\ deposit' = [deposit EXCEPT ![d] = rec]
        /\ UNCHANGED <<issued, vaRequest, vaVerified, vaMemory, vaRows, reading, vaShown, promised>>
    BY <1>3 DEF Num!Resolve
  <2>3. /\ deposit[d].promised => deposit[d].number \in promised
        /\ deposit[d].number \in Asks
    BY <1>3 DEF NumbersInv, Num!Resolve
  <2> HIDE DEF rec, Kinds
  <2> QED
    BY <1>1, <1>3, <2>1, <2>2, <2>3
<1>4. deposit[d].at = "paid" => deposit[d].number \in Asks /\ Asker[deposit[d].number] \in Num!Owners
  BY DEF NumbersInv
<1>5. CASE Num!NamedCustomer(d)
  BY <1>3, <1>4, <1>5 DEF Num!NamedCustomer, Num!Resolve
<1>6. CASE Num!ByRow(d)
  <2>1. PICK r \in vaRows : r[1] = deposit[d].number /\ Num!Resolve(d, "credited", r[2])
    BY <1>6 DEF Num!ByRow
  <2>2. r[1] \in Asks /\ r[2] \in Num!Owners /\ r = <<r[1], r[2]>>
    OBVIOUS
  <2>3. r[1] \in Num!RowsOf(r[2])
    BY <2>2 DEF Num!RowsOf, Num!Numbers
  <2>4. Asker[deposit[d].number] = r[2]
    BY <2>1, <2>2, <2>3 DEF NumbersInv, Num!ListsAreOwn
  <2> QED
    BY <1>3, <2>1, <2>2, <2>4
<1>7. CASE Num!Parked(d)
  <2>1. deposit[d].at = "paid" /\ \A r \in vaRows : r[1] # deposit[d].number
    BY <1>7 DEF Num!Parked, Num!Resolve
  <2>2. SUFFICES ASSUME deposit[d].promised PROVE FALSE
    BY <1>3, <1>7 DEF Num!Parked
  <2>3. deposit[d].number \in promised
    BY <2>2 DEF NumbersInv
  <2>4. <<deposit[d].number, Asker[deposit[d].number]>> \in vaRows
    BY <2>3 DEF NumbersInv, Num!ListsAreOwn
  <2> QED
    BY <2>1, <2>4
<1>8. CASE Num!LookupFails(d)
  BY <1>3, <1>8 DEF Num!LookupFails
<1> QED
  BY <1>2, <1>5, <1>6, <1>7, <1>8

\* A promised account finds its user: AccountsReachTheirUser, for any number of
\* users, requests and transfers, and every set of faults.
THEOREM AccountsFindTheirUser == ServicesSpec => []AccountsReachTheirUser
<1> DEFINE Inv == part = "numbers" => NumbersInv
<1>1. ServicesInit => Inv
  <2>1. SUFFICES ASSUME Num!VirtualAccountsInit PROVE NumbersInv
    BY DEF ServicesInit, ComponentsInit
  <2>2. Num!VirtualAccountsTypeOK
    BY <2>1 DEF Num!VirtualAccountsInit, Num!VirtualAccountsTypeOK, Num!Numbers, Num!Stages
  <2>3. Num!ListsAreOwn /\ Num!PromisedIsCredited
    BY <2>1 DEF Num!VirtualAccountsInit, Num!ListsAreOwn, Num!RowsOf, Num!PromisedIsCredited
  <2>4. /\ \A q \in Asks : vaRequest[q].at = "new"
        /\ \A u \in Num!Owners : reading[u] = {Num!None}
        /\ \A d \in Transfers : deposit[d].at = "none" /\ ~deposit[d].promised
    BY <2>1 DEF Num!VirtualAccountsInit
  <2> QED
    BY <2>2, <2>3, <2>4 DEF NumbersInv
<1>2. Inv /\ [ServicesNext]_servicesVars => Inv'
  <2>1. ASSUME NumbersInv, Num!VirtualAccountsNext PROVE NumbersInv'
    BY <2>1, RequestSteps, ListSteps, TransferSteps DEF Num!VirtualAccountsNext
  <2>2. ASSUME NumbersInv, UNCHANGED numberVars PROVE NumbersInv'
    BY <2>2 DEF numberVars, NumbersInv, Num!VirtualAccountsTypeOK, Num!ListsAreOwn, Num!RowsOf,
                Num!PromisedIsCredited
  <2> QED
    BY <2>1, <2>2, Part
<1>3. Inv => AccountsReachTheirUser
  BY DEF NumbersInv, AccountsReachTheirUser, Num!AccountsReachTheirUser
<1> QED
  BY <1>1, <1>2, <1>3, PTL DEF ServicesSpec

-----------------------------------------------------------------------------
(* Naira.                                                                  *)

\* A balance that credits alone can have come to.
OfCredits(b) == b \in 0..Cardinality(credited)

\* NairaNeverOverwrites, with the sets' sizes taken here.
NairaBound ==
    nairaRow # NoBalance =>
        /\ Cardinality(chainCredited) - Cardinality(spent) <= nairaRow
        /\ nairaRow <= Cardinality(chainCredited) + Cardinality(credited) - Cardinality(spent)

\* Until there is a row nothing but naira has moved, and every balance that may
\* become the row's is one of credits.
NairaInv ==
    /\ Nai!NairaTypeOK
    /\ credited \subseteq reserved
    /\ \A n \in Naira : event[n] = "resolving" => n \in reserved \ credited
    /\ nairaRow = NoBalance =>
          /\ chainCredited = {} /\ spent = {} /\ hears = {}
          /\ OfCredits(memory)
          /\ newest # NoBalance => OfCredits(newest)
          /\ \A n \in Naira \cup Readers : OfCredits(ensure[n].balance)
          /\ \A n \in Naira : OfCredits(entry[n].balance)
    /\ NairaBound

LEMMA NairaCounts ==
    ASSUME Nai!NairaTypeOK
    PROVE  /\ Cardinality(credited) \in Nat /\ Cardinality(chainCredited) \in Nat
           /\ Cardinality(spent) \in Nat
           /\ \A n \in Naira \ credited :
                 Cardinality(credited \cup {n}) = Cardinality(credited) + 1
           /\ \A c \in Chain \ chainCredited :
                 Cardinality(chainCredited \cup {c}) = Cardinality(chainCredited) + 1
           /\ \A s \in Spends \ spent : Cardinality(spent \cup {s}) = Cardinality(spent) + 1
<1>0. IsFiniteSet(Naira) /\ IsFiniteSet(Chain) /\ IsFiniteSet(Spends)
  BY ServicesAssumption DEF Nai!NairaConstants, Nai!IsFiniteSet, IsFiniteSet
<1>1. IsFiniteSet(credited) /\ IsFiniteSet(chainCredited) /\ IsFiniteSet(spent)
  BY <1>0, FS_Subset DEF Nai!NairaTypeOK
<1> QED
  BY <1>1, FS_CardinalityType, FS_AddElement

\* The webhook, and the tasks it leaves behind.
LEMMA NairaWebhookSteps ==
    ASSUME NairaInv, NEW n \in Naira,
           \/ Nai!Deliver(n) \/ Nai!CreditUserBalance(n) \/ Nai!NotResolved(n)
           \/ Nai!EnsureSelects(n) \/ Nai!EntryInserts(n) \/ Nai!TaskFails(n)
    PROVE  NairaInv'
<1> USE DEF Nai!movements, Nai!tasks
<1>t. Nai!NairaTypeOK /\ NoBalance \notin Int
  BY ServicesAssumption DEF NairaInv, Nai!NairaConstants
<1>1. CASE Nai!Deliver(n) \/ Nai!NotResolved(n)
  <2>1. Nai!NairaTypeOK'
    BY <1>1, <1>t DEF Nai!Deliver, Nai!NotResolved, Nai!NairaTypeOK
  <2> QED
    BY <1>1, <1>t, <2>1 DEF NairaInv, Nai!Deliver, Nai!NotResolved, OfCredits, Nai!NairaTypeOK,
                            NairaBound
<1>2. CASE Nai!CreditUserBalance(n)
  <2>1. Cardinality(credited') = Cardinality(credited) + 1 /\ Cardinality(credited) \in Nat
    BY <1>2, <1>t, NairaCounts DEF NairaInv, Nai!CreditUserBalance
  <2>2. Nai!NairaTypeOK'
    BY <1>2, <1>t DEF Nai!CreditUserBalance, Nai!Task, Nai!NairaTypeOK
  <2>r. n \in reserved
    BY <1>2 DEF NairaInv, Nai!CreditUserBalance
  <2>3. credited' \subseteq reserved' /\ \A m \in Naira : event'[m] = "resolving" => m \in reserved' \ credited'
    BY <1>2, <1>t, <2>r DEF Nai!CreditUserBalance, NairaInv, Nai!NairaTypeOK
  <2>4. ASSUME nairaRow = NoBalance
        PROVE  /\ OfCredits(memory)' /\ (newest # NoBalance => OfCredits(newest)')
               /\ \A m \in Naira \cup Readers : OfCredits(ensure[m].balance)'
               /\ \A m \in Naira : OfCredits(entry[m].balance)'
    BY <1>2, <1>t, <2>1, <2>4
    DEF Nai!CreditUserBalance, NairaInv, OfCredits, Nai!Task, Nai!NairaTypeOK
  <2>5. NairaBound'
    BY <1>2, <1>t, <2>1, NairaCounts
    DEF Nai!CreditUserBalance, NairaInv, NairaBound, Nai!NairaTypeOK
  <2> QED
    BY <1>2, <2>2, <2>3, <2>4, <2>5 DEF Nai!CreditUserBalance, NairaInv
<1>3. CASE Nai!EnsureSelects(n)
  <2>1. Nai!NairaTypeOK'
    BY <1>3, <1>t DEF Nai!EnsureSelects, Nai!NairaTypeOK, Nai!NoTask
  <2> QED
    BY <1>3, <1>t, <2>1 DEF NairaInv, Nai!EnsureSelects, OfCredits, Nai!NairaTypeOK,
                            NairaBound
<1>4. CASE Nai!EntryInserts(n)
  <2>1. Nai!NairaTypeOK'
    BY <1>4, <1>t DEF Nai!EntryInserts, Nai!NairaTypeOK, Nai!NoTask
  <2>2. OfCredits(entry[n].balance) => OfCredits(0)
    <3>1. Cardinality(credited) \in Nat
      BY <1>t, NairaCounts
    <3> QED
      BY <3>1 DEF OfCredits
  <2> QED
    BY <1>4, <1>t, <2>1, <2>2 DEF NairaInv, Nai!EntryInserts, OfCredits, Nai!NairaTypeOK,
                            NairaBound, Nai!NoTask
<1>5. CASE Nai!TaskFails(n)
  <2>e. /\ ensure' \in [Naira \cup Readers -> [at : {"none", "select", "insert"}, balance : Int]]
        /\ entry' \in [Naira -> [at : {"none", "insert"}, balance : Int]]
    <3>1. \/ ensure' = [ensure EXCEPT ![n] = Nai!NoTask] /\ UNCHANGED entry
          \/ entry' = [entry EXCEPT ![n] = Nai!NoTask] /\ UNCHANGED ensure
      BY <1>5 DEF Nai!TaskFails
    <3>2. /\ Nai!NoTask \in [at : {"none", "select", "insert"}, balance : Int]
          /\ Nai!NoTask \in [at : {"none", "insert"}, balance : Int]
      BY DEF Nai!NoTask
    <3>3. /\ ensure \in [Naira \cup Readers -> [at : {"none", "select", "insert"}, balance : Int]]
          /\ entry \in [Naira -> [at : {"none", "insert"}, balance : Int]]
      BY <1>t DEF Nai!NairaTypeOK
    <3>4. CASE ensure' = [ensure EXCEPT ![n] = Nai!NoTask] /\ UNCHANGED entry
      BY <3>2, <3>3, <3>4
    <3>5. CASE entry' = [entry EXCEPT ![n] = Nai!NoTask] /\ UNCHANGED ensure
      BY <3>2, <3>3, <3>5
    <3> QED
      BY <3>1, <3>4, <3>5
  <2>1. Nai!NairaTypeOK'
    BY <1>5, <1>t, <2>e DEF Nai!TaskFails, Nai!NairaTypeOK
  <2> QED
    BY <1>5, <1>t, <2>1, NairaCounts
    DEF NairaInv, Nai!TaskFails, OfCredits, Nai!NairaTypeOK, Nai!NoTask,
        NairaBound
<1> QED
  BY <1>1, <1>2, <1>3, <1>4, <1>5

\* The others that use the row.
LEMMA NairaRowSteps ==
    ASSUME NairaInv,
           \/ \E n \in Naira \cup Readers : Nai!EnsureInserts(n)
           \/ \E g \in Readers : Nai!GetBalance(g)
           \/ \E s \in Spends : Nai!Debit(s)
           \/ \E c \in Chain : Nai!ChainCredit(c)
           \/ \E b \in hears : Nai!Hear(b)
           \/ Nai!Restart
    PROVE  NairaInv'
<1> USE DEF Nai!movements, Nai!tasks
<1>t. Nai!NairaTypeOK /\ NoBalance \notin Int /\ Naira \cap Readers = {}
  BY ServicesAssumption DEF NairaInv, Nai!NairaConstants
<1>c. Cardinality(credited) \in Nat /\ Cardinality(chainCredited) \in Nat /\ Cardinality(spent) \in Nat
  BY <1>t, NairaCounts
<1>0. nairaRow = NoBalance => Cardinality(chainCredited) = 0 /\ Cardinality(spent) = 0
  BY FS_EmptySet DEF NairaInv
<1>1. ASSUME NEW n \in Naira \cup Readers, Nai!EnsureInserts(n) PROVE NairaInv'
  <2>e. /\ ensure[n].balance \in Int
        /\ ensure' \in [Naira \cup Readers -> [at : {"none", "select", "insert"}, balance : Int]]
    BY <1>1, <1>t DEF Nai!EnsureInserts, Nai!NairaTypeOK, Nai!NoTask
  <2>1. Nai!NairaTypeOK' /\ nairaRow' # NoBalance
    BY <1>1, <1>t, <2>e DEF Nai!EnsureInserts, Nai!NairaTypeOK, Nai!Seeded
  <2>2. NairaBound'
    BY <1>1, <1>t, <1>c, <1>0
    DEF NairaInv, Nai!EnsureInserts, OfCredits, NairaBound, Nai!Seeded,
        Nai!NairaTypeOK
  <2> QED
    BY <1>1, <2>1, <2>2 DEF NairaInv, Nai!EnsureInserts
<1>2. ASSUME NEW g \in Readers, Nai!GetBalance(g) PROVE NairaInv'
  <2>l. Nai!Latest \in Int
    BY <1>t DEF Nai!Latest, Nai!NairaTypeOK
  <2>e. ensure' \in [Naira \cup Readers -> [at : {"none", "select", "insert"}, balance : Int]]
    BY <1>2, <1>t, <2>l DEF Nai!GetBalance, Nai!NairaTypeOK, Nai!Task
  <2>1. Nai!NairaTypeOK'
    BY <1>2, <1>t, <2>e DEF Nai!GetBalance, Nai!NairaTypeOK
  <2> QED
    BY <1>2, <1>t, <2>1 DEF NairaInv, Nai!GetBalance, OfCredits, Nai!Task, Nai!Latest,
                            Nai!NairaTypeOK, NairaBound
<1>3. ASSUME NEW s \in Spends, Nai!Debit(s) PROVE NairaInv'
  <2>1. Nai!NairaTypeOK' /\ nairaRow' # NoBalance
    BY <1>3, <1>t DEF Nai!Debit, Nai!NairaTypeOK, Nai!Latest
  <2>2. Cardinality(spent') = Cardinality(spent) + 1
    BY <1>3, <1>t, NairaCounts DEF Nai!Debit
  <2>3. NairaBound'
    BY <1>3, <1>t, <1>c, <1>0, <2>2
    DEF NairaInv, Nai!Debit, OfCredits, NairaBound, Nai!Latest, Nai!NairaTypeOK
  <2> QED
    BY <1>3, <2>1, <2>3 DEF NairaInv, Nai!Debit
<1>4. ASSUME NEW c \in Chain, Nai!ChainCredit(c) PROVE NairaInv'
  <2>1. Nai!NairaTypeOK' /\ nairaRow' # NoBalance
    BY <1>4, <1>t DEF Nai!ChainCredit, Nai!NairaTypeOK
  <2>2. Cardinality(chainCredited') = Cardinality(chainCredited) + 1
    BY <1>4, <1>t, NairaCounts DEF Nai!ChainCredit
  <2>3. NairaBound'
    BY <1>4, <1>t, <1>c, <1>0, <2>2
    DEF NairaInv, Nai!ChainCredit, OfCredits, NairaBound, Nai!NairaTypeOK
  <2> QED
    BY <1>4, <2>1, <2>3 DEF NairaInv, Nai!ChainCredit
<1>5. ASSUME NEW b \in hears, Nai!Hear(b) PROVE NairaInv'
  <2>1. Nai!NairaTypeOK' /\ nairaRow # NoBalance
    BY <1>5, <1>t DEF Nai!Hear, Nai!NairaTypeOK, NairaInv
  <2> QED
    BY <1>5, <2>1 DEF NairaInv, Nai!Hear, NairaBound
<1>6. CASE Nai!Restart
  <2>1. /\ event' \in [Naira -> {"new", "resolving", "over"}]
        /\ \A n \in Naira : event'[n] # "resolving"
    BY <1>6, <1>t DEF Nai!Restart, Nai!NairaTypeOK
  <2>2. /\ \A n \in Naira \cup Readers : ensure'[n].balance = 0
        /\ \A n \in Naira : entry'[n].balance = 0
        /\ ensure' \in [Naira \cup Readers -> [at : {"none", "select", "insert"}, balance : Int]]
        /\ entry' \in [Naira -> [at : {"none", "insert"}, balance : Int]]
    BY <1>6 DEF Nai!Restart, Nai!NoTask
  <2>3. Nai!NairaTypeOK'
    BY <1>6, <1>t, <2>1, <2>2 DEF Nai!Restart, Nai!NairaTypeOK
  <2> QED
    BY <1>6, <1>c, <2>1, <2>2, <2>3
    DEF NairaInv, Nai!Restart, OfCredits, NairaBound
<1> QED
  BY <1>1, <1>2, <1>3, <1>4, <1>5, <1>6

\* A credit in naira takes nothing away and none counts twice: NairaNeverOverwrites,
\* for any finite number of deposits and debits, and every set of faults.
THEOREM NairaOverwritesNothing == ServicesSpec => []NairaNeverOverwrites
<1> DEFINE Inv == part = "naira" => NairaInv
<1>1. ServicesInit => Inv
  <2>1. SUFFICES ASSUME Nai!NairaInit PROVE NairaInv
    BY DEF ServicesInit, ComponentsInit
  <2>2. Nai!NairaTypeOK
    BY <2>1 DEF Nai!NairaInit, Nai!NairaTypeOK, Nai!NoTask
  <2>3. Cardinality(credited) = 0
    BY <2>1, FS_EmptySet DEF Nai!NairaInit
  <2> QED
    BY <2>1, <2>2, <2>3 DEF Nai!NairaInit, NairaInv, OfCredits, NairaBound, Nai!NoTask
<1>2. Inv /\ [ServicesNext]_servicesVars => Inv'
  <2>1. ASSUME NairaInv, Nai!NairaNext PROVE NairaInv'
    BY <2>1, NairaWebhookSteps, NairaRowSteps DEF Nai!NairaNext
  <2>2. ASSUME NairaInv, UNCHANGED nairaVars PROVE NairaInv'
    BY <2>2 DEF nairaVars, NairaInv, Nai!NairaTypeOK, OfCredits, NairaBound
  <2> QED
    BY <2>1, <2>2, Part
<1>3. Inv => NairaNeverOverwrites
  BY DEF NairaInv, NairaNeverOverwrites, Nai!NairaNeverOverwrites, NairaBound,
         Nai!Cardinality, Cardinality
<1> QED
  BY <1>1, <1>2, <1>3, PTL DEF ServicesSpec

-----------------------------------------------------------------------------
(* Accounts.                                                               *)

\* Id i is that of the row of its person, or on its way there, or in doubt.
IdStands(i) ==
    \/ i \in doubtful
    \/ accountRow[Who[i]] = i
    \/ accountRow[Who[i]] = NoId /\ Acc!Known(i) /\ <<"user", i>> \in writes

\* Wallet w of user i has a row, or will have, or is in doubt as i or w is.
Watched(i, w) ==
    \/ i \in doubtful \/ w \in doubtful
    \/ <<i, w>> \in walletRow \/ <<"wallet", i, w>> \in writes

\* A login's id is one of its person, what it was told is watched, what it read of
\* the database is there still, and if it read nothing, a row that is there by now
\* is of someone in memory.
LoginIsSound(q) ==
    /\ login[q].at \in {"generating", "answered"} =>
          login[q].id \in Logins /\ Who[login[q].id] = Who[q]
    /\ login[q].at = "generating" => Acc!Known(login[q].id)
    /\ login[q].at = "answered" =>
          IdStands(login[q].id) /\ \A w \in login[q].told : Watched(login[q].id, w)
    /\ login[q].row # NoId => /\ login[q].row = accountRow[Who[q]]
                              /\ \A w \in login[q].wallets : <<login[q].row, w>> \in walletRow
    /\ login[q].at = "resume" /\ login[q].row = NoId /\ q \notin doubtful =>
          \/ accountRow[Who[q]] = NoId
          \/ \E i \in Logins : Acc!Known(i) /\ Who[i] = Who[q]

MemoryIsSound(i) == Acc!Known(i) => IdStands(i) /\ \A w \in users[i] : Watched(i, w)

\* Without a row a person is in memory once at most.
OneInMemory ==
    \A i, j \in Logins :
        Acc!Known(i) /\ Acc!Known(j) /\ Who[i] = Who[j] /\ accountRow[Who[i]] = NoId => i = j

WritesAreOfMemory ==
    \A i \in Logins : /\ <<"user", i>> \in writes => Acc!Known(i)
                      /\ \A w \in Logins : <<"wallet", i, w>> \in writes => Acc!Known(i)

AccountsInv ==
    /\ Acc!AccountsTypeOK
    /\ \A p \in Acc!People : accountRow[p] # NoId => Who[accountRow[p]] = p
    /\ OneInMemory
    /\ WritesAreOfMemory
    /\ \A i \in Logins : MemoryIsSound(i)
    /\ \A q \in Logins : LoginIsSound(q)
    /\ \A x \in sync : /\ x[1] = accountRow[Who[x[1]]]
                       /\ \A w \in x[2] : <<x[1], w>> \in walletRow

\* What every step but a restart does: it only adds, and a new row is that of
\* someone in memory.
Grows ==
    /\ \A i \in Logins : Acc!Known(i) => Acc!Known(i)'
    /\ \A p \in Acc!People :
          \/ accountRow'[p] = accountRow[p]
          \/ /\ accountRow[p] = NoId /\ accountRow'[p] \in Logins
             /\ Acc!Known(accountRow'[p]) /\ Who[accountRow'[p]] = p
    /\ walletRow \subseteq walletRow' /\ doubtful \subseteq doubtful'
    /\ \A i \in Logins : IdStands(i) => IdStands(i)'
    /\ \A i, w \in Logins : Watched(i, w) => Watched(i, w)'

LEMMA AccountTypes ==
    ASSUME Acc!AccountsTypeOK
    PROVE  /\ NoId \notin Logins /\ \A ws \in SUBSET Logins : ws # NoId
           /\ \A q \in Logins : Who[q] \in Acc!People
           /\ \A i \in Logins : Acc!Known(i) => users[i] \in SUBSET Logins
           /\ users \in [Logins -> (SUBSET Logins) \cup {NoId}]
           /\ accountRow \in [Acc!People -> Logins \cup {NoId}]
           /\ login \in [Logins -> [at : Acc!Points, id : Logins \cup {NoId}, row : Logins \cup {NoId},
                             wallets : SUBSET Logins, told : SUBSET Logins]]
           /\ walletRow \subseteq Logins \X Logins /\ doubtful \subseteq Logins
           /\ writes \subseteq ({"user"} \X Logins) \cup ({"wallet"} \X Logins \X Logins)
           /\ sync \subseteq (Logins \X SUBSET Logins)
  BY ServicesAssumption DEF Acc!AccountsConstants, Acc!AccountsTypeOK, Acc!People, Acc!Known

\* What a step leaves alone stays sound.
LEMMA StaysSound ==
    ASSUME AccountsInv, Grows
    PROVE  /\ \A q \in Logins : login'[q] = login[q] => LoginIsSound(q)'
           /\ \A i \in Logins : users'[i] = users[i] => MemoryIsSound(i)'
           /\ \A x \in sync : /\ x[1] = accountRow'[Who[x[1]]]
                              /\ \A w \in x[2] : <<x[1], w>> \in walletRow'
<1>t. Acc!AccountsTypeOK
  BY DEF AccountsInv
<1> USE <1>t, AccountTypes
<1>1. ASSUME NEW q \in Logins, login'[q] = login[q] PROVE LoginIsSound(q)'
  <2> DEFINE l == login[q]
  <2>0. /\ LoginIsSound(q) /\ l.told \subseteq Logins /\ l.wallets \subseteq Logins
        /\ l.row \in Logins \cup {NoId}
    BY DEF AccountsInv
  <2>1. l.at \in {"generating", "answered"} => l.id \in Logins /\ Who[l.id] = Who[q]
    BY <2>0 DEF LoginIsSound
  <2>2. l.at = "generating" => Acc!Known(l.id)'
    BY <1>1, <2>0, <2>1 DEF LoginIsSound, Grows
  <2>3. l.at = "answered" => IdStands(l.id)' /\ \A w \in l.told : Watched(l.id, w)'
    BY <1>1, <2>0, <2>1 DEF LoginIsSound, Grows
  <2>4. l.row # NoId => /\ l.row = accountRow'[Who[q]]
                        /\ \A w \in l.wallets : <<l.row, w>> \in walletRow'
    BY <2>0 DEF LoginIsSound, Grows
  <2>5. l.at = "resume" /\ l.row = NoId /\ q \notin doubtful' =>
          \/ accountRow'[Who[q]] = NoId
          \/ \E i \in Logins : Acc!Known(i)' /\ Who[i] = Who[q]
    BY <2>0 DEF LoginIsSound, Grows
  <2> QED
    BY <1>1, <2>1, <2>2, <2>3, <2>4, <2>5 DEF LoginIsSound
<1>2. ASSUME NEW i \in Logins, users'[i] = users[i] PROVE MemoryIsSound(i)'
  BY <1>2 DEF AccountsInv, MemoryIsSound, Grows, Acc!Known
<1>3. ASSUME NEW x \in sync
      PROVE  /\ x[1] = accountRow'[Who[x[1]]]
             /\ \A w \in x[2] : <<x[1], w>> \in walletRow'
  BY <1>3 DEF AccountsInv, Grows
<1> QED
  BY <1>1, <1>2, <1>3

\* A step that only adds keeps the invariant if what it changes is sound.
LEMMA AddingKeeps ==
    ASSUME AccountsInv, Grows, Acc!AccountsTypeOK', OneInMemory', WritesAreOfMemory',
           \A q \in Logins : login'[q] = login[q] \/ LoginIsSound(q)',
           \A i \in Logins : users'[i] = users[i] \/ MemoryIsSound(i)',
           sync' \subseteq sync
    PROVE  AccountsInv'
<1>1. \A p \in Acc!People : accountRow'[p] # NoId => Who[accountRow'[p]] = p
  BY DEF AccountsInv, Grows
<1> QED
  BY <1>1, StaysSound DEF AccountsInv

LoginRecords == [at : Acc!Points, id : Logins \cup {NoId}, row : Logins \cup {NoId},
                 wallets : SUBSET Logins, told : SUBSET Logins]

\* The records a login's steps make.
Generating(r, i) == [r EXCEPT !.at = "generating", !.id = i]
Answering(r, i, ws) == [r EXCEPT !.at = "answered", !.id = i, !.told = ws]
Resuming(r, i, ws) == [r EXCEPT !.at = "resume", !.row = i, !.wallets = ws]

LEMMA RecordsMade ==
    ASSUME NEW r \in LoginRecords, NEW i \in Logins \cup {NoId}, NEW ws \in SUBSET Logins
    PROVE  /\ Generating(r, i) \in LoginRecords
           /\ Generating(r, i).at = "generating" /\ Generating(r, i).id = i
           /\ Generating(r, i).row = r.row /\ Generating(r, i).wallets = r.wallets
           /\ Answering(r, i, ws) \in LoginRecords
           /\ Answering(r, i, ws).at = "answered" /\ Answering(r, i, ws).id = i
           /\ Answering(r, i, ws).told = ws /\ Answering(r, i, ws).row = r.row
           /\ Answering(r, i, ws).wallets = r.wallets
           /\ Resuming(r, i, ws) \in LoginRecords
           /\ Resuming(r, i, ws).at = "resume" /\ Resuming(r, i, ws).row = i
           /\ Resuming(r, i, ws).wallets = ws
<1> USE DEF LoginRecords, Acc!Points
<1>1. /\ Generating(r, i) \in LoginRecords
      /\ Generating(r, i).at = "generating" /\ Generating(r, i).id = i
      /\ Generating(r, i).row = r.row /\ Generating(r, i).wallets = r.wallets
  BY DEF Generating
<1>2. /\ Answering(r, i, ws) \in LoginRecords
      /\ Answering(r, i, ws).at = "answered" /\ Answering(r, i, ws).id = i
      /\ Answering(r, i, ws).told = ws /\ Answering(r, i, ws).row = r.row
      /\ Answering(r, i, ws).wallets = r.wallets
  BY DEF Answering
<1>3. /\ Resuming(r, i, ws) \in LoginRecords
      /\ Resuming(r, i, ws).at = "resume" /\ Resuming(r, i, ws).row = i
      /\ Resuming(r, i, ws).wallets = ws
  BY DEF Resuming
<1> QED
  BY <1>1, <1>2, <1>3

\* A step of one login that nothing else notices, but for a doubt.
LEMMA LoginMoves ==
    ASSUME AccountsInv, NEW q \in Logins, NEW rec \in LoginRecords,
           login' = [login EXCEPT ![q] = rec],
           UNCHANGED <<users, accountRow, walletRow, writes, sync>>,
           doubtful \subseteq doubtful', doubtful' \subseteq Logins,
           LoginIsSound(q)'
    PROVE  AccountsInv'
<1>t. Acc!AccountsTypeOK
  BY DEF AccountsInv
<1>1. Acc!AccountsTypeOK'
  BY <1>t DEF Acc!AccountsTypeOK, LoginRecords
<1>2. Grows
  BY DEF Grows, IdStands, Watched, Acc!Known
<1>3. OneInMemory' /\ WritesAreOfMemory'
  BY DEF AccountsInv, OneInMemory, WritesAreOfMemory, Acc!Known
<1>4. \A o \in Logins : login'[o] = login[o] \/ LoginIsSound(o)'
  BY <1>t DEF Acc!AccountsTypeOK
<1> QED
  BY <1>1, <1>2, <1>3, <1>4, AddingKeeps

LEMMA BeginSteps ==
    ASSUME AccountsInv, NEW q \in Logins, Acc!Begin(q) \/ Acc!Query(q) \/ Acc!PrivyFails(q)
    PROVE  AccountsInv'
<1>t. Acc!AccountsTypeOK /\ LoginIsSound(q)
  BY DEF AccountsInv
<1> USE <1>t, AccountTypes
<1>1. ASSUME NEW i \in Acc!InMemory(Who[q]), Acc!Enter(q, "new", i, users[i]),
             UNCHANGED <<users, accountRow, walletRow, writes, sync, doubtful>>
      PROVE  AccountsInv'
  <2>1. /\ i \in Logins /\ Acc!Known(i) /\ Who[i] = Who[q] /\ users[i] \subseteq Logins
        /\ MemoryIsSound(i)
    BY DEF Acc!InMemory, AccountsInv
  <2> DEFINE rec == IF users[i] # {} THEN Answering(login[q], i, users[i])
                                     ELSE Generating(login[q], i)
  <2>2. /\ rec \in LoginRecords /\ rec.id = i /\ rec.row = login[q].row
        /\ rec.wallets = login[q].wallets
        /\ \/ rec.at = "answered" /\ rec.told = users[i]
           \/ rec.at = "generating"
    <3>1. login[q] \in LoginRecords
      BY DEF LoginRecords
    <3> DEFINE g == Generating(login[q], i)
               n == Answering(login[q], i, users[i])
    <3>2. /\ g \in LoginRecords /\ g.at = "generating" /\ g.id = i
          /\ g.row = login[q].row /\ g.wallets = login[q].wallets
          /\ n \in LoginRecords /\ n.at = "answered" /\ n.id = i /\ n.told = users[i]
          /\ n.row = login[q].row /\ n.wallets = login[q].wallets
      BY <2>1, <3>1, RecordsMade
    <3> QED
      BY <3>2
  <2>3. login' = [login EXCEPT ![q] = rec]
    BY <1>1 DEF Acc!Enter, Acc!Step, Answering, Generating
  <2> HIDE DEF rec
  <2>4. login'[q] = rec
    BY <2>3
  <2>5. IdStands(i) /\ \A w \in users[i] : Watched(i, w)
    BY <2>1 DEF MemoryIsSound
  <2>6. LoginIsSound(q)'
    BY <1>1, <2>1, <2>2, <2>4, <2>5 DEF LoginIsSound, IdStands, Watched, Acc!Known
  <2> QED
    BY <1>1, <2>2, <2>3, <2>6, LoginMoves
<1>2. ASSUME NEW rec \in LoginRecords, login' = [login EXCEPT ![q] = rec],
             rec.at \in {"query", "gone"} \/ rec.at = "resume",
             UNCHANGED <<users, accountRow, walletRow, writes, sync>>,
             doubtful' = doubtful \/ doubtful' = doubtful \cup {q},
             rec.row # NoId => /\ rec.row = accountRow[Who[q]]
                               /\ \A w \in rec.wallets : <<rec.row, w>> \in walletRow,
             rec.at = "resume" /\ rec.row = NoId =>
                 q \in doubtful' \/ accountRow[Who[q]] = NoId
      PROVE  AccountsInv'
  <2>1. LoginIsSound(q)'
    BY <1>2 DEF LoginIsSound
  <2> QED
    BY <1>2, <2>1, LoginMoves
<1>3. login[q].row # NoId => /\ login[q].row = accountRow[Who[q]]
                             /\ \A w \in login[q].wallets : <<login[q].row, w>> \in walletRow
  BY DEF LoginIsSound
<1>4. ASSUME NEW at \in {"query", "gone"}, login' = [login EXCEPT ![q] = [login[q] EXCEPT !.at = at]],
             UNCHANGED <<users, accountRow, walletRow, writes, sync, doubtful>>
      PROVE  AccountsInv'
  <2> DEFINE rec == [login[q] EXCEPT !.at = at]
  <2>1. /\ rec \in LoginRecords /\ rec.at = at /\ rec.row = login[q].row
        /\ rec.wallets = login[q].wallets
    BY DEF LoginRecords, Acc!Points
  <2> HIDE DEF rec
  <2>2. login' = [login EXCEPT ![q] = rec]
    BY <1>4 DEF rec
  <2> QED
    BY <1>2, <1>3, <1>4, <2>1, <2>2
<1>5. CASE Acc!Begin(q)
  BY <1>1, <1>4, <1>5 DEF Acc!Begin, Acc!Step
<1>6. CASE Acc!PrivyFails(q)
  BY <1>4, <1>6 DEF Acc!PrivyFails, Acc!Step
<1>7. CASE Acc!Query(q)
  <2> DEFINE row0 == accountRow[Who[q]]
             found == IF row0 = NoId THEN {} ELSE Acc!WalletsOf(row0)
  <2>0. row0 \in Logins \cup {NoId} /\ found \subseteq Logins
        /\ \A w \in found : <<row0, w>> \in walletRow
    BY DEF Acc!WalletsOf
  <2>1. CASE /\ Acc!Step(q, "query", [login[q] EXCEPT !.at = "resume", !.row = row0, !.wallets = found])
             /\ UNCHANGED <<users, accountRow, walletRow, writes, sync, doubtful>>
    <3> HIDE DEF found
    <3> DEFINE rec == Resuming(login[q], row0, found)
    <3>1. /\ rec \in LoginRecords /\ rec.at = "resume" /\ rec.row = row0 /\ rec.wallets = found
      <4>1. login[q] \in LoginRecords
        BY DEF LoginRecords
      <4> QED
        BY <2>0, <4>1, RecordsMade
    <3>2. login' = [login EXCEPT ![q] = rec]
      BY <2>1 DEF Acc!Step, Resuming
    <3> HIDE DEF rec
    <3> QED
      BY <1>2, <2>0, <2>1, <3>1, <3>2
  <2>2. CASE /\ Acc!Step(q, "query", [login[q] EXCEPT !.at = "resume"])
             /\ doubtful' = doubtful \cup {q}
             /\ UNCHANGED <<users, accountRow, walletRow, writes, sync>>
    <3> DEFINE rec == [login[q] EXCEPT !.at = "resume"]
    <3>1. /\ rec \in LoginRecords /\ rec.at = "resume" /\ rec.row = login[q].row
          /\ rec.wallets = login[q].wallets
      BY DEF LoginRecords, Acc!Points
    <3>2. login' = [login EXCEPT ![q] = rec]
      BY <2>2 DEF Acc!Step
    <3> HIDE DEF rec
    <3> QED
      BY <1>2, <1>3, <2>2, <3>1, <3>2
  <2> QED
    BY <1>7, <2>1, <2>2 DEF Acc!Query
<1> QED
  BY <1>5, <1>6, <1>7

\* A step that sets the wallets of one user in memory.
LEMMA MemoryMoves ==
    ASSUME AccountsInv, NEW q \in Logins, NEW rec \in LoginRecords,
           login' = [login EXCEPT ![q] = rec] \/ UNCHANGED login,
           NEW i \in Logins, NEW ws \in SUBSET Logins, users' = [users EXCEPT ![i] = ws],
           writes \subseteq writes',
           writes' \subseteq ({"user"} \X Logins) \cup ({"wallet"} \X Logins \X Logins),
           UNCHANGED <<accountRow, walletRow, doubtful>>, sync' \subseteq sync,
           LoginIsSound(q)' \/ UNCHANGED login, MemoryIsSound(i)', WritesAreOfMemory',
           \/ accountRow[Who[i]] # NoId
           \/ \A j \in Logins : Acc!Known(j) /\ Who[j] = Who[i] => j = i
    PROVE  AccountsInv'
<1>t. Acc!AccountsTypeOK /\ login \in [Logins -> LoginRecords]
  BY AccountTypes DEF AccountsInv, LoginRecords
<1> USE <1>t, AccountTypes
<1>1. \A j \in Logins : users'[j] = IF j = i THEN ws ELSE users[j]
  BY DEF Acc!AccountsTypeOK
<1>2. Acc!AccountsTypeOK'
  <2>1. login' \in [Logins -> LoginRecords]
    OBVIOUS
  <2> QED
    BY <2>1 DEF Acc!AccountsTypeOK, LoginRecords
<1>3. \A j \in Logins : Acc!Known(j)' <=> j = i \/ Acc!Known(j)
  BY <1>1 DEF Acc!Known
<1>4. Grows
  BY <1>3 DEF Grows, IdStands, Watched
<1>5. OneInMemory'
  BY <1>3 DEF AccountsInv, OneInMemory
<1>6. \A o \in Logins : login'[o] = login[o] \/ LoginIsSound(o)'
  BY <1>t
<1>7. \A j \in Logins : users'[j] = users[j] \/ MemoryIsSound(j)'
  BY <1>1
<1> QED
  BY <1>2, <1>4, <1>5, <1>6, <1>7, AddingKeeps

\* A login that goes on with user i and the wallets w he has.
LEMMA EnterIsSound ==
    ASSUME AccountsInv, NEW q \in Logins, NEW i \in Logins, NEW w \in SUBSET Logins,
           Acc!Enter(q, "resume", i, w), Who[i] = Who[q], Acc!Known(i)', IdStands(i)',
           \A v \in w : Watched(i, v)',
           UNCHANGED <<accountRow, walletRow>>
    PROVE  /\ LoginIsSound(q)'
           /\ \E rec \in LoginRecords : login' = [login EXCEPT ![q] = rec]
<1>t. LoginIsSound(q) /\ login \in [Logins -> LoginRecords]
  BY AccountTypes DEF AccountsInv, LoginRecords
<1> DEFINE g == Generating(login[q], i)
           n == Answering(login[q], i, w)
<1>1. /\ g \in LoginRecords /\ g.at = "generating" /\ g.id = i
      /\ g.row = login[q].row /\ g.wallets = login[q].wallets
      /\ n \in LoginRecords /\ n.at = "answered" /\ n.id = i /\ n.told = w
      /\ n.row = login[q].row /\ n.wallets = login[q].wallets
  BY <1>t, RecordsMade
<1>2. login' = [login EXCEPT ![q] = n] \/ login' = [login EXCEPT ![q] = g]
  BY DEF Acc!Enter, Acc!Step, Answering, Generating
<1> HIDE DEF g, n
<1>3. login'[q] = n \/ login'[q] = g
  BY <1>t, <1>2
<1>4. CASE login'[q] = n
  BY <1>t, <1>1, <1>2, <1>4 DEF LoginIsSound
<1>5. CASE login'[q] = g
  BY <1>t, <1>1, <1>2, <1>5 DEF LoginIsSound
<1> QED
  BY <1>3, <1>4, <1>5

LEMMA ResumeSteps ==
    ASSUME AccountsInv, NEW q \in Logins, Acc!Resume(q)
    PROVE  AccountsInv'
<1>t. Acc!AccountsTypeOK /\ LoginIsSound(q) /\ login[q].wallets \subseteq Logins
  BY AccountTypes DEF AccountsInv
<1> USE <1>t, AccountTypes
<1>r. PICK row0 \in Logins \cup {NoId}, ws \in SUBSET Logins :
         row0 = login[q].row /\ ws = login[q].wallets
  OBVIOUS
<1>u. UNCHANGED <<accountRow, walletRow, sync, doubtful>>
  BY DEF Acc!Resume
<1>1. CASE /\ row0 # NoId
           /\ Acc!Enter(q, "resume", row0, ws)
           /\ users' = [users EXCEPT ![row0] = ws]
           /\ UNCHANGED writes
  <2>1. /\ row0 \in Logins /\ row0 = accountRow[Who[q]] /\ Who[row0] = Who[q]
        /\ \A w \in ws : <<row0, w>> \in walletRow
    BY <1>1, <1>r DEF LoginIsSound, AccountsInv
  <2>2. users'[row0] = ws
    BY <1>1, <2>1
  <2>3. Acc!Known(row0)' /\ IdStands(row0)' /\ \A w \in ws : Watched(row0, w)'
    BY <1>u, <2>1, <2>2 DEF Acc!Known, IdStands, Watched
  <2>4. PICK rec \in LoginRecords : login' = [login EXCEPT ![q] = rec] /\ LoginIsSound(q)'
    BY <1>1, <1>u, <2>1, <2>3, EnterIsSound
  <2>5. MemoryIsSound(row0)'
    BY <2>2, <2>3 DEF MemoryIsSound
  <2>6. WritesAreOfMemory'
    BY <1>1, <2>1, <2>3 DEF AccountsInv, WritesAreOfMemory, Acc!Known
  <2> QED
    BY <1>1, <1>u, <2>1, <2>4, <2>5, <2>6, MemoryMoves
<1>2. ASSUME NEW i \in Acc!InMemory(Who[q]), Acc!Enter(q, "resume", i, users[i]),
             writes' = writes \cup {<<"user", i>>}, UNCHANGED users
      PROVE  AccountsInv'
  <2>1. /\ i \in Logins /\ Acc!Known(i) /\ Who[i] = Who[q] /\ MemoryIsSound(i)
        /\ users[i] \in SUBSET Logins
    BY DEF Acc!InMemory, AccountsInv
  <2>2. /\ Acc!Known(i)' /\ IdStands(i)' /\ \A w \in users[i] : Watched(i, w)'
    BY <1>2, <1>u, <2>1 DEF MemoryIsSound, Acc!Known, IdStands, Watched
  <2>3. PICK rec \in LoginRecords : login' = [login EXCEPT ![q] = rec] /\ LoginIsSound(q)'
    BY <1>2, <1>u, <2>1, <2>2, EnterIsSound
  <2>4. MemoryIsSound(i)'
    BY <1>2, <2>2 DEF MemoryIsSound
  <2>5. WritesAreOfMemory'
    BY <1>2, <2>1 DEF AccountsInv, WritesAreOfMemory, Acc!Known
  <2>6. users' = [users EXCEPT ![i] = users[i]]
    BY <1>2, <2>1
  <2>7. \/ accountRow[Who[i]] # NoId
        \/ \A j \in Logins : Acc!Known(j) /\ Who[j] = Who[i] => j = i
    BY <2>1 DEF AccountsInv, OneInMemory
  <2>8. writes \subseteq writes' /\ writes' \subseteq ({"user"} \X Logins) \cup ({"wallet"} \X Logins \X Logins)
    BY <1>2, <2>1
  <2> QED
    BY <1>u, <2>1, <2>3, <2>4, <2>5, <2>6, <2>7, <2>8, MemoryMoves
<1>3. CASE /\ row0 = NoId /\ Acc!InMemory(Who[q]) = {}
           /\ Acc!Enter(q, "resume", q, {})
           /\ users' = [users EXCEPT ![q] = {}]
           /\ writes' = writes \cup {<<"user", q>>}
  <2>1. \A j \in Logins : Acc!Known(j) => Who[j] # Who[q]
    BY <1>3 DEF Acc!InMemory
  <2>2. q \in doubtful \/ accountRow[Who[q]] = NoId
    BY <1>3, <1>r, <2>1 DEF LoginIsSound, Acc!Enter, Acc!Step
  <2>3. users'[q] = {}
    BY <1>3
  <2>4. Acc!Known(q)' /\ IdStands(q)'
    BY <1>3, <1>u, <2>2, <2>3 DEF Acc!Known, IdStands
  <2>5. PICK rec \in LoginRecords : login' = [login EXCEPT ![q] = rec] /\ LoginIsSound(q)'
    BY <1>3, <1>u, <2>4, EnterIsSound
  <2>6. MemoryIsSound(q)'
    BY <2>3, <2>4 DEF MemoryIsSound
  <2>7. WritesAreOfMemory'
    BY <1>3, <2>4 DEF AccountsInv, WritesAreOfMemory, Acc!Known
  <2>8. writes \subseteq writes' /\ writes' \subseteq ({"user"} \X Logins) \cup ({"wallet"} \X Logins \X Logins)
    BY <1>3
  <2> QED
    BY <1>3, <1>u, <2>1, <2>5, <2>6, <2>7, <2>8, MemoryMoves
<1> QED
  BY <1>1, <1>2, <1>3, <1>r DEF Acc!Resume

LEMMA WalletsMadeSteps ==
    ASSUME AccountsInv, NEW q \in Logins, Acc!WalletsMade(q)
    PROVE  AccountsInv'
<1>t. Acc!AccountsTypeOK /\ LoginIsSound(q) /\ login[q] \in LoginRecords
  BY AccountTypes DEF AccountsInv, LoginRecords
<1> USE <1>t, AccountTypes
<1>0. /\ login[q].id \in Logins /\ Acc!Known(login[q].id) /\ Who[login[q].id] = Who[q]
      /\ login[q].at = "generating"
  BY DEF Acc!WalletsMade, Acc!Step, LoginIsSound
<1>i. PICK i \in Logins : i = login[q].id
  BY <1>0
<1>1. /\ Acc!Known(i) /\ Who[i] = Who[q] /\ MemoryIsSound(i) /\ login[q].at = "generating"
  BY <1>0, <1>i DEF AccountsInv
<1>r. PICK rec \in LoginRecords : rec = Answering(login[q], i, {q})
  BY <1>i, RecordsMade
<1>2. [login[q] EXCEPT !.at = "answered", !.told = {q}] = rec
  BY <1>i, <1>r DEF LoginRecords, Answering
<1>3. /\ login' = [login EXCEPT ![q] = rec] /\ users' = [users EXCEPT ![i] = {q}]
      /\ writes' = writes \cup {<<"wallet", i, q>>}
      /\ UNCHANGED <<accountRow, walletRow, sync, doubtful>>
  BY <1>i, <1>2 DEF Acc!WalletsMade, Acc!Step, Acc!WalletWrites
<1>4. /\ rec.at = "answered" /\ rec.id = i /\ rec.told = {q}
      /\ rec.row = login[q].row /\ rec.wallets = login[q].wallets
  BY <1>r, RecordsMade
<1>5. users'[i] = {q} /\ login'[q] = rec
  BY <1>1, <1>3
<1>6. Acc!Known(i)' /\ IdStands(i)' /\ Watched(i, q)'
  BY <1>1, <1>3, <1>5 DEF MemoryIsSound, Acc!Known, IdStands, Watched
<1>7. LoginIsSound(q)'
  BY <1>1, <1>3, <1>4, <1>5, <1>6 DEF LoginIsSound
<1>8. MemoryIsSound(i)'
  BY <1>5, <1>6 DEF MemoryIsSound
<1>9. WritesAreOfMemory'
  BY <1>1, <1>3, <1>5, <1>6 DEF AccountsInv, WritesAreOfMemory, Acc!Known
<1>10. writes \subseteq writes' /\ writes' \subseteq ({"user"} \X Logins) \cup ({"wallet"} \X Logins \X Logins)
  BY <1>1, <1>3
<1>11. \/ accountRow[Who[i]] # NoId
       \/ \A j \in Logins : Acc!Known(j) /\ Who[j] = Who[i] => j = i
  BY <1>1 DEF AccountsInv, OneInMemory
<1>12. {q} \in SUBSET Logins /\ sync' \subseteq sync
  BY <1>3
<1> QED
  BY <1>3, <1>7, <1>8, <1>9, <1>10, <1>11, <1>12, MemoryMoves

\* What a write that is lost throws doubt on.
LEMMA LastOfWrite ==
    /\ \A i : Acc!Cardinality(DOMAIN <<"user", i>>) = 2
    /\ \A i, w : Acc!Cardinality(DOMAIN <<"wallet", i, w>>) = 3
<1>1. Cardinality(1..2) = 2 - 1 + 1 /\ Cardinality(1..3) = 3 - 1 + 1
  BY 1 \in Int, 2 \in Int, 3 \in Int, ~(1 > 2), ~(1 > 3), FS_Interval, Zenon
<1>2. \A S : Acc!Cardinality(S) = Cardinality(S)
  BY DEF Acc!Cardinality, Cardinality
<1>3. \A i, w : DOMAIN <<"user", i>> = 1..2 /\ DOMAIN <<"wallet", i, w>> = 1..3
  OBVIOUS
<1> QED
  BY <1>1, <1>2, <1>3

LEMMA WriteKinds ==
    ASSUME Acc!AccountsTypeOK, NEW x \in writes
    PROVE  /\ x[Acc!Cardinality(DOMAIN x)] \in Logins
           /\ \/ \E i \in Logins : x = <<"user", i>> /\ x[Acc!Cardinality(DOMAIN x)] = i
              \/ \E i, w \in Logins :
                    x = <<"wallet", i, w>> /\ x[Acc!Cardinality(DOMAIN x)] = w
<1>1. CASE x \in {"user"} \X Logins
  <2>1. PICK i \in Logins : x = <<"user", i>>
    BY <1>1
  <2>2. x[2] = i /\ Acc!Cardinality(DOMAIN x) = 2
    BY <2>1, LastOfWrite
  <2> QED
    BY <2>1, <2>2
<1>2. CASE x \in {"wallet"} \X Logins \X Logins
  <2>1. PICK i \in Logins, w \in Logins : x = <<"wallet", i, w>>
    BY <1>2
  <2>2. x[3] = w /\ Acc!Cardinality(DOMAIN x) = 3
    BY <2>1, LastOfWrite
  <2> QED
    BY <2>1, <2>2
<1> QED
  BY <1>1, <1>2, AccountTypes

\* A write of a user's row, by itself or before those of his wallets.
LEMMA RowWritten ==
    ASSUME AccountsInv, NEW i \in Logins, Acc!Known(i), accountRow' = Acc!UserRowAfter(i),
           UNCHANGED <<users, doubtful>>,
           \A j \in Logins : j # i /\ <<"user", j>> \in writes => <<"user", j>> \in writes'
    PROVE  /\ accountRow' \in [Acc!People -> Logins \cup {NoId}]
           /\ \A p \in Acc!People :
                 \/ accountRow'[p] = accountRow[p]
                 \/ accountRow[p] = NoId /\ accountRow'[p] = i /\ Who[i] = p
           /\ \A j \in Logins : IdStands(j) => IdStands(j)'
           /\ i \in doubtful \/ accountRow'[Who[i]] = i
<1>t. Acc!AccountsTypeOK /\ MemoryIsSound(i)
  BY DEF AccountsInv
<1> USE <1>t, AccountTypes
<1>1. /\ accountRow' \in [Acc!People -> Logins \cup {NoId}]
      /\ \A p \in Acc!People :
            \/ accountRow'[p] = accountRow[p]
            \/ accountRow[p] = NoId /\ accountRow'[p] = i /\ Who[i] = p
      /\ accountRow'[Who[i]] = IF accountRow[Who[i]] = NoId THEN i ELSE accountRow[Who[i]]
  BY DEF Acc!UserRowAfter
<1>2. i \in doubtful \/ accountRow'[Who[i]] = i
  BY <1>1 DEF MemoryIsSound, IdStands
<1>3. ASSUME NEW j \in Logins, IdStands(j) PROVE IdStands(j)'
  <2>1. CASE j = i
    BY <1>2, <2>1 DEF IdStands
  <2>2. CASE j # i /\ accountRow[Who[j]] = NoId /\ Acc!Known(j) /\ <<"user", j>> \in writes
    <3>1. Who[j] # Who[i]
      BY <2>2 DEF AccountsInv, OneInMemory
    <3> QED
      BY <1>1, <2>2, <3>1 DEF IdStands, Acc!Known
  <2> QED
    BY <1>1, <1>3, <2>1, <2>2 DEF IdStands
<1> QED
  BY <1>1, <1>2, <1>3

LEMMA WriteSteps ==
    ASSUME AccountsInv, Acc!Write
    PROVE  AccountsInv'
<1>t. Acc!AccountsTypeOK
  BY DEF AccountsInv
<1> USE <1>t, AccountTypes
<1>1. ASSUME NEW i \in Logins, Acc!WriteUser(i) PROVE AccountsInv'
  <2>1. /\ Acc!Known(i) /\ accountRow' = Acc!UserRowAfter(i)
        /\ writes' = writes \ {<<"user", i>>}
        /\ UNCHANGED <<users, walletRow, login, sync, doubtful>>
    BY <1>1 DEF AccountsInv, WritesAreOfMemory, Acc!WriteUser
  <2>3. \A j \in Logins : j # i /\ <<"user", j>> \in writes => <<"user", j>> \in writes'
    BY <2>1
  <2>4. /\ accountRow' \in [Acc!People -> Logins \cup {NoId}]
        /\ \A p \in Acc!People :
              \/ accountRow'[p] = accountRow[p]
              \/ accountRow[p] = NoId /\ accountRow'[p] = i /\ Who[i] = p
        /\ \A j \in Logins : IdStands(j) => IdStands(j)'
    BY <2>1, <2>3, RowWritten
  <2>5. \A j, w \in Logins : Watched(j, w) => Watched(j, w)'
    BY <2>1 DEF Watched
  <2>6. Grows
    BY <2>1, <2>4, <2>5 DEF Grows, Acc!Known
  <2>7. Acc!AccountsTypeOK' /\ WritesAreOfMemory'
    BY <2>1, <2>4 DEF Acc!AccountsTypeOK, AccountsInv, WritesAreOfMemory, Acc!Known
  <2>8. OneInMemory'
    BY <2>1, <2>4 DEF AccountsInv, OneInMemory, Acc!Known
  <2> QED
    BY <2>1, <2>6, <2>7, <2>8, AddingKeeps
<1>2. ASSUME NEW i \in Logins, NEW w \in Logins, Acc!WriteWallet(i, w) PROVE AccountsInv'
  <2>1. /\ Acc!Known(i) /\ accountRow' = Acc!UserRowAfter(i)
        /\ walletRow' = IF accountRow'[Who[i]] = i THEN walletRow \cup {<<i, w>>} ELSE walletRow
        /\ writes' = writes \ {<<"wallet", i, w>>}
        /\ UNCHANGED <<users, login, sync, doubtful>>
    BY <1>2 DEF AccountsInv, WritesAreOfMemory, Acc!WriteWallet
  <2>2. \A j \in Logins : <<"user", j>> \in writes => <<"user", j>> \in writes'
    BY <2>1
  <2>3. /\ accountRow' \in [Acc!People -> Logins \cup {NoId}]
        /\ \A p \in Acc!People :
              \/ accountRow'[p] = accountRow[p]
              \/ accountRow[p] = NoId /\ accountRow'[p] = i /\ Who[i] = p
        /\ \A j \in Logins : IdStands(j) => IdStands(j)'
        /\ i \in doubtful \/ accountRow'[Who[i]] = i
    BY <2>1, <2>2, RowWritten
  <2>4. \A j, v \in Logins : Watched(j, v) => Watched(j, v)'
    BY <2>1, <2>3 DEF Watched
  <2>5. Grows
    BY <2>1, <2>3, <2>4 DEF Grows, Acc!Known
  <2>6. Acc!AccountsTypeOK' /\ WritesAreOfMemory'
    BY <2>1, <2>3 DEF Acc!AccountsTypeOK, AccountsInv, WritesAreOfMemory, Acc!Known
  <2>7. OneInMemory'
    BY <2>1, <2>3 DEF AccountsInv, OneInMemory, Acc!Known
  <2> QED
    BY <2>1, <2>5, <2>6, <2>7, AddingKeeps
<1> QED
  BY <1>1, <1>2 DEF Acc!Write

LEMMA WriteFailsSteps ==
    ASSUME AccountsInv, NEW x \in writes, Acc!WriteFails(x)
    PROVE  AccountsInv'
<1>t. Acc!AccountsTypeOK
  BY DEF AccountsInv
<1> USE <1>t, AccountTypes
<1> DEFINE last == x[Acc!Cardinality(DOMAIN x)]
<1>1. /\ writes' = writes \ {x} /\ doubtful' = doubtful \cup {last}
      /\ UNCHANGED <<users, accountRow, walletRow, login, sync>>
  BY DEF Acc!WriteFails
<1>2. /\ last \in Logins
      /\ \/ \E i \in Logins : x = <<"user", i>> /\ last = i
         \/ \E i, w \in Logins : x = <<"wallet", i, w>> /\ last = w
  BY WriteKinds
<1> HIDE DEF last
<1>3. \A i \in Logins : IdStands(i) => IdStands(i)'
  BY <1>1, <1>2 DEF IdStands, Acc!Known
<1>4. \A i, w \in Logins : Watched(i, w) => Watched(i, w)'
  BY <1>1, <1>2 DEF Watched
<1>5. Grows
  BY <1>1, <1>3, <1>4 DEF Grows, Acc!Known
<1>6. Acc!AccountsTypeOK' /\ WritesAreOfMemory' /\ OneInMemory'
  BY <1>1, <1>2 DEF Acc!AccountsTypeOK, AccountsInv, WritesAreOfMemory, OneInMemory, Acc!Known
<1> QED
  BY <1>1, <1>5, <1>6, AddingKeeps

LEMMA SyncSteps ==
    ASSUME AccountsInv, Acc!SyncUser
    PROVE  AccountsInv'
<1>t. Acc!AccountsTypeOK /\ login \in [Logins -> LoginRecords]
  BY AccountTypes DEF AccountsInv, LoginRecords
<1> USE <1>t, AccountTypes
<1>1. PICK x \in sync : /\ users' = [users EXCEPT ![x[1]] = x[2]]
                        /\ sync' = sync \ {x}
                        /\ UNCHANGED <<accountRow, walletRow, login, writes, doubtful>>
  BY DEF Acc!SyncUser
<1>2. PICK i \in Logins, ws \in SUBSET Logins : x = <<i, ws>>
  OBVIOUS
<1>3. /\ i = accountRow[Who[i]] /\ \A w \in ws : <<i, w>> \in walletRow
      /\ users' = [users EXCEPT ![i] = ws]
  BY <1>1, <1>2 DEF AccountsInv
<1>4. users'[i] = ws
  BY <1>3
<1>5. MemoryIsSound(i)'
  BY <1>1, <1>3, <1>4 DEF MemoryIsSound, IdStands, Watched
<1>6. WritesAreOfMemory'
  BY <1>1, <1>3 DEF AccountsInv, WritesAreOfMemory, Acc!Known
<1>7. accountRow[Who[i]] # NoId /\ login[i] \in LoginRecords /\ UNCHANGED login
      /\ writes \subseteq writes' /\ sync' \subseteq sync
      /\ writes' \subseteq ({"user"} \X Logins) \cup ({"wallet"} \X Logins \X Logins)
      /\ UNCHANGED <<accountRow, walletRow, doubtful>>
  BY <1>1, <1>3
<1> QED
  BY <1>3, <1>5, <1>6, <1>7, MemoryMoves

\* A restart: nobody is in memory, and what was on its way to the database is in doubt.
LEMMA AccountsRestart ==
    ASSUME AccountsInv, Acc!Restart
    PROVE  AccountsInv'
<1>t. Acc!AccountsTypeOK /\ login \in [Logins -> LoginRecords]
  BY AccountTypes DEF AccountsInv, LoginRecords
<1> USE <1>t, AccountTypes
<1>1. /\ \A i \in Logins : ~Acc!Known(i)'
      /\ users' \in [Logins -> (SUBSET Logins) \cup {NoId}]
      /\ writes' = {} /\ UNCHANGED <<accountRow, walletRow>>
  BY DEF Acc!Restart, Acc!Known
<1>2. /\ doubtful \subseteq doubtful' /\ doubtful' \subseteq Logins
      /\ \A i \in Logins : <<"user", i>> \in writes => i \in doubtful'
      /\ \A i, w \in Logins : <<"wallet", i, w>> \in writes => w \in doubtful'
  <2>1. doubtful' = doubtful \cup {x[Acc!Cardinality(DOMAIN x)] : x \in writes}
    BY DEF Acc!Restart
  <2>2. \A x \in writes : x[Acc!Cardinality(DOMAIN x)] \in Logins
    BY WriteKinds
  <2>3. \A i \in Logins : <<"user", i>> \in writes => i \in doubtful'
    BY <2>1, LastOfWrite
  <2>4. \A i, w \in Logins : <<"wallet", i, w>> \in writes => w \in doubtful'
    BY <2>1, LastOfWrite
  <2> QED
    BY <2>1, <2>2, <2>3, <2>4
<1>3. /\ \A x \in sync' : x \in Logins \X SUBSET Logins
      /\ \A x \in sync' : /\ x[1] = accountRow'[Who[x[1]]]
                          /\ \A w \in x[2] : <<x[1], w>> \in walletRow'
  <2>1. sync' = {<<accountRow[p], Acc!WalletsOf(accountRow[p])>> :
                     p \in {o \in Acc!People : accountRow[o] # NoId}}
    BY DEF Acc!Restart
  <2>2. SUFFICES ASSUME NEW p \in Acc!People, accountRow[p] # NoId,
                        NEW x, x = <<accountRow[p], Acc!WalletsOf(accountRow[p])>>
                 PROVE  /\ x \in Logins \X SUBSET Logins
                        /\ x[1] = accountRow[Who[x[1]]]
                        /\ \A w \in x[2] : <<x[1], w>> \in walletRow
    BY <1>1, <2>1
  <2>3. accountRow[p] \in Logins /\ Who[accountRow[p]] = p
    BY <2>2 DEF AccountsInv
  <2>4. /\ Acc!WalletsOf(accountRow[p]) \in SUBSET Logins
        /\ \A w \in Acc!WalletsOf(accountRow[p]) : <<accountRow[p], w>> \in walletRow
    BY DEF Acc!WalletsOf
  <2> QED
    BY <2>2, <2>3, <2>4
<1>4. /\ login' \in [Logins -> LoginRecords]
      /\ \A q \in Logins :
            /\ login'[q].at \in {"new", "answered", "gone"}
            /\ login'[q].at = "answered" => login'[q] = login[q]
            /\ login'[q].row = login[q].row /\ login'[q].wallets = login[q].wallets
  <2>1. login' = [q \in Logins |-> IF login[q].at \in {"new", "answered"} THEN login[q]
                                   ELSE [login[q] EXCEPT !.at = "gone"]]
    BY DEF Acc!Restart
  <2>2. ASSUME NEW q \in Logins
        PROVE  /\ [login[q] EXCEPT !.at = "gone"] \in LoginRecords
               /\ [login[q] EXCEPT !.at = "gone"].at = "gone"
               /\ [login[q] EXCEPT !.at = "gone"].row = login[q].row
               /\ [login[q] EXCEPT !.at = "gone"].wallets = login[q].wallets
    <3>1. PICK r \in LoginRecords : r = login[q]
      OBVIOUS
    <3>2. /\ [r EXCEPT !.at = "gone"] \in LoginRecords
          /\ [r EXCEPT !.at = "gone"].at = "gone"
          /\ [r EXCEPT !.at = "gone"].row = r.row
          /\ [r EXCEPT !.at = "gone"].wallets = r.wallets
      BY DEF LoginRecords, Acc!Points
    <3> QED
      BY <3>1, <3>2
  <2> QED
    BY <2>1, <2>2
<1>5. \A i \in Logins : IdStands(i) => IdStands(i)'
  BY <1>1, <1>2 DEF IdStands
<1>6. \A i, w \in Logins : Watched(i, w) => Watched(i, w)'
  BY <1>1, <1>2 DEF Watched
<1>7. ASSUME NEW q \in Logins PROVE LoginIsSound(q)'
  <2>1. LoginIsSound(q) /\ login[q].told \subseteq Logins
    BY DEF AccountsInv
  <2>2. login'[q].at = "answered" =>
          /\ login'[q].id \in Logins /\ Who[login'[q].id] = Who[q]
          /\ IdStands(login[q].id)'
          /\ \A w \in login'[q].told : Watched(login[q].id, w)'
    <3>1. SUFFICES ASSUME login'[q].at = "answered", login'[q] = login[q]
                   PROVE  /\ login[q].id \in Logins /\ Who[login[q].id] = Who[q]
                          /\ IdStands(login[q].id)'
                          /\ \A w \in login[q].told : Watched(login[q].id, w)'
      BY <1>4
    <3>2. PICK i \in Logins : i = login[q].id /\ Who[i] = Who[q]
      BY <2>1, <3>1 DEF LoginIsSound
    <3>3. IdStands(i)' /\ \A w \in login[q].told : Watched(i, w)'
      BY <1>5, <1>6, <2>1, <3>1, <3>2 DEF LoginIsSound
    <3> QED
      BY <3>1, <3>2, <3>3
  <2>3. login'[q].row # NoId => /\ login'[q].row = accountRow'[Who[q]]
                                /\ \A w \in login'[q].wallets : <<login'[q].row, w>> \in walletRow'
    BY <1>1, <1>4, <2>1 DEF LoginIsSound
  <2> QED
    BY <1>4, <2>2, <2>3 DEF LoginIsSound
<1>8. Acc!AccountsTypeOK'
  BY <1>1, <1>2, <1>3, <1>4 DEF Acc!AccountsTypeOK, LoginRecords
<1>9. OneInMemory' /\ WritesAreOfMemory' /\ \A i \in Logins : MemoryIsSound(i)'
  BY <1>1 DEF OneInMemory, WritesAreOfMemory, MemoryIsSound
<1>10. \A p \in Acc!People : accountRow'[p] # NoId => Who[accountRow'[p]] = p
  BY <1>1 DEF AccountsInv
<1> QED
  BY <1>3, <1>7, <1>8, <1>9, <1>10 DEF AccountsInv

LEMMA AccountsInductive ==
    ASSUME AccountsInv, [Acc!AccountsNext]_accountVars
    PROVE  AccountsInv'
<1>1. CASE Acc!AccountsNext
  BY <1>1, BeginSteps, ResumeSteps, WalletsMadeSteps, WriteSteps, WriteFailsSteps, SyncSteps,
     AccountsRestart
  DEF Acc!AccountsNext
<1>2. CASE UNCHANGED accountVars
  BY <1>2 DEF accountVars, AccountsInv, Acc!AccountsTypeOK, OneInMemory, WritesAreOfMemory,
              MemoryIsSound, LoginIsSound, IdStands, Watched, Acc!Known
<1> QED
  BY <1>1, <1>2

LEMMA AccountsStart ==
    ASSUME Acc!AccountsInit
    PROVE  AccountsInv
<1> USE ServicesAssumption DEF Acc!AccountsConstants
<1>1. Acc!AccountsTypeOK
  BY DEF Acc!AccountsInit, Acc!AccountsTypeOK, Acc!NewLogin, Acc!Points
<1>2. /\ \A i \in Logins : users[i] = NoId
      /\ \A q \in Logins : login[q].at = "new" /\ login[q].row = NoId
      /\ \A p \in Acc!People : accountRow[p] = NoId
      /\ writes = {} /\ sync = {}
  BY DEF Acc!AccountsInit, Acc!NewLogin
<1>3. OneInMemory /\ WritesAreOfMemory
  BY <1>2 DEF OneInMemory, WritesAreOfMemory, Acc!Known
<1>4. /\ \A i \in Logins : MemoryIsSound(i)
      /\ \A q \in Logins : LoginIsSound(q)
  BY <1>2 DEF MemoryIsSound, LoginIsSound, Acc!Known
<1> QED
  BY <1>1, <1>2, <1>3, <1>4 DEF AccountsInv

LEMMA AccountsStand == ServicesSpec => [](part = "accounts" => AccountsInv)
<1>1. ServicesInit => (part = "accounts" => AccountsInv)
  BY AccountsStart DEF ServicesInit, ComponentsInit
<1>2. (part = "accounts" => AccountsInv) /\ [ServicesNext]_servicesVars
        => (part = "accounts" => AccountsInv)'
  BY Part, AccountsInductive
<1> QED
  BY <1>1, <1>2, PTL DEF ServicesSpec

\* Logins of one person are answered with one id: OneIdPerPerson, for any number of
\* people and logins, and every set of faults.
THEOREM PeopleHaveOneId == ServicesSpec => []OneIdPerPerson
<1>1. ASSUME AccountsInv, NEW q \in Logins, NEW o \in Logins, Who[q] = Who[o],
             login[q].at = "answered", login[o].at = "answered",
             login[q].id \notin doubtful, login[o].id \notin doubtful
      PROVE  login[q].id = login[o].id
  <2>1. /\ login[q].id \in Logins /\ Who[login[q].id] = Who[q] /\ IdStands(login[q].id)
        /\ login[o].id \in Logins /\ Who[login[o].id] = Who[q] /\ IdStands(login[o].id)
    BY <1>1 DEF AccountsInv, LoginIsSound
  <2>2. NoId \notin Logins
    BY ServicesAssumption DEF Acc!AccountsConstants
  <2>3. CASE accountRow[Who[q]] = NoId
    BY <1>1, <2>1, <2>2, <2>3 DEF AccountsInv, OneInMemory, IdStands
  <2>4. CASE accountRow[Who[q]] # NoId
    BY <1>1, <2>1, <2>4 DEF IdStands
  <2> QED
    BY <2>3, <2>4
<1>2. (part = "accounts" => AccountsInv) => OneIdPerPerson
  BY <1>1 DEF OneIdPerPerson, Acc!OneIdPerPerson, AccountsInv
<1> QED
  BY <1>2, AccountsStand, PTL

\* A wallet shown to a user is watched: ShownWalletsAreWatched, for any number of
\* people and logins, and every set of faults.
THEOREM WalletsAreWatched == ServicesSpec => []ShownWalletsAreWatched
<1>1. ASSUME AccountsInv PROVE Acc!ShownWalletsAreWatched
  BY <1>1 DEF AccountsInv, LoginIsSound, Watched, Acc!ShownWalletsAreWatched
<1>2. (part = "accounts" => AccountsInv) => ShownWalletsAreWatched
  BY <1>1 DEF ShownWalletsAreWatched
<1> QED
  BY <1>2, AccountsStand, PTL

-----------------------------------------------------------------------------
(* Identity verification.                                                  *)

CheckStages == {"idle", "asked", "loaded", "clear", "record", "answered"}

CheckRecords(p) == [stage : CheckStages, session : KycSessions[p] \cup {NoSession},
                    answer : Kyc(p)!Verdicts \cup {"none", "error"},
                    page : KycSessions[p] \cup {NoSession}]

\* The types the argument needs: those of the loop are not among them.
VerdictTypes(p) ==
    /\ session \in KycSessions[p] \cup {NoSession}
    /\ created \subseteq KycSessions[p]
    /\ verdict \in [KycSessions[p] \cup {NoSession} -> Kyc(p)!Verdicts]
    /\ check \in [Kyc(p)!Checks -> CheckRecords(p)]
    /\ userKyc \in BOOLEAN /\ rowKyc \in BOOLEAN /\ walletKyc \in BOOLEAN
    /\ page \in KycSessions[p] \cup {NoSession} /\ starting \in KycSessions[p] \cup {NoSession}

\* The provider has approved in one of the user's sessions.
Approved(p) ==
    \E s \in created : KycProvider[p][s] = "SIMULATED" \/ verdict[Kyc(p)!AttemptOf(s)] = "approved"

\* What a check looks up is a session there has been.
SessionsExist(p) ==
    /\ session \in created \cup {NoSession}
    /\ \A c \in Kyc(p)!Checks : check[c].stage = "loaded" => check[c].session \in created

\* A check that carries an approval, or is about to record one, carries the
\* provider's.
AnswersAreApprovals(p) ==
    \A c \in Kyc(p)!Checks :
        /\ check[c].stage = "record" => check[c].answer = "approved"
        /\ check[c].answer = "approved" => Approved(p)

\* Nobody is told of an approval that the API does not hold.
ToldIsHeld(p) ==
    walletKyc \/ profile = "verified"
        \/ (\E c \in Kyc(p)!Checks :
                check[c].stage = "answered" /\ check[c].answer = "approved")
        => userKyc \/ "memory" \in lost

KycInv(p) ==
    /\ VerdictTypes(p) /\ SessionsExist(p) /\ AnswersAreApprovals(p) /\ ToldIsHeld(p)
    /\ userKyc \/ rowKyc => Approved(p)

\* Sessions are added and an approval is never taken back.
GoesOn(p) ==
    /\ created \subseteq created'
    /\ \A a \in KycSessions[p] \cup {NoSession} :
          verdict[a] = "approved" => verdict'[a] = "approved"

LEMMA ApprovedStays ==
    ASSUME NEW p \in KycParts,
           VerdictTypes(p), GoesOn(p), Approved(p)
    PROVE  Approved(p)'
BY DEF VerdictTypes, GoesOn, Approved, Kyc!AttemptOf

\* The provider's decision and the opening of sessions.
LEMMA SessionSteps ==
    ASSUME NEW p \in KycParts,
           KycInv(p),
           \/ \E a \in KycSessions[p] \cup {NoSession}, v \in Kyc(p)!Verdicts \ {"pending"} :
                 Kyc(p)!Decide(a, v)
           \/ \E s \in KycSessions[p] : Kyc(p)!SaveSession(s)
           \/ Kyc(p)!StartFails
    PROVE  KycInv(p)'
<1>1. /\ GoesOn(p) /\ VerdictTypes(p)'
      /\ UNCHANGED <<check, userKyc, rowKyc, walletKyc, profile>>
      /\ lost \subseteq lost'
      /\ session' \in created' \cup {NoSession}
  BY DEF KycInv, VerdictTypes, SessionsExist, GoesOn, Kyc!Decide, Kyc!SaveSession,
         Kyc!StartFails, Kyc!screenVars
<1>2. Approved(p) => Approved(p)'
  BY <1>1, ApprovedStays DEF KycInv
<1>3. SessionsExist(p)' /\ AnswersAreApprovals(p)' /\ ToldIsHeld(p)'
  BY <1>1, <1>2 DEF KycInv, SessionsExist, AnswersAreApprovals, ToldIsHeld, GoesOn
<1> QED
  BY <1>1, <1>2, <1>3 DEF KycInv

\* A step of one check that adds no session and no verdict.
LEMMA OneCheck ==
    ASSUME NEW p \in KycParts,
           KycInv(p), NEW c \in Kyc(p)!Checks, NEW rec \in CheckRecords(p),
           check' = [check EXCEPT ![c] = rec],
           rec.stage = "loaded" => rec.session \in created,
           rec.stage = "record" => rec.answer = "approved",
           rec.answer = "approved" => Approved(p),
           rec.stage = "answered" /\ rec.answer = "approved" => userKyc' \/ "memory" \in lost',
           session' \in {session, NoSession},
           userKyc' \in BOOLEAN, rowKyc' \in BOOLEAN, walletKyc' \in BOOLEAN,
           userKyc' \/ rowKyc' => Approved(p),
           walletKyc' => userKyc' \/ "memory" \in lost',
           userKyc \/ "memory" \in lost => userKyc' \/ "memory" \in lost',
           UNCHANGED <<created, verdict, profile, page, starting>>
    PROVE  KycInv(p)'
<1>1. VerdictTypes(p)' /\ (Approved(p)' <=> Approved(p))
  BY DEF KycInv, VerdictTypes, Approved, Kyc!AttemptOf
<1>2. \A d \in Kyc(p)!Checks : check'[d] = IF d = c THEN rec ELSE check[d]
  BY DEF KycInv, VerdictTypes
<1>3. SessionsExist(p)' /\ AnswersAreApprovals(p)' /\ ToldIsHeld(p)'
  BY <1>1, <1>2 DEF KycInv, SessionsExist, AnswersAreApprovals, ToldIsHeld
<1> QED
  BY <1>1, <1>3 DEF KycInv

\* The records the checks go through.
LEMMA CheckRecordsMade ==
    ASSUME NEW p \in KycParts
    PROVE
    /\ Kyc(p)!NoCheck \in CheckRecords(p)
    /\ \A c \in Kyc(p)!Checks, said \in Kyc(p)!Verdicts \cup {"none", "error"} :
          VerdictTypes(p) => /\ Kyc(p)!AnswerOf(c, said) \in CheckRecords(p)
                          /\ Kyc(p)!AnswerOf(c, said).stage = "answered"
                          /\ Kyc(p)!AnswerOf(c, said).answer = said
BY DEF VerdictTypes, CheckRecords, Kyc!NoCheck, Kyc!AnswerOf, CheckStages, Kyc!Verdicts

\* A check is answered without an approval.
LEMMA NotApproved ==
    ASSUME NEW p \in KycParts,
           KycInv(p), NEW c \in Kyc(p)!Checks,
           NEW said \in (Kyc(p)!Verdicts \cup {"none", "error"}) \ {"approved"},
           check' = [check EXCEPT ![c] = Kyc(p)!AnswerOf(c, said)],
           session' \in {session, NoSession}, lost \subseteq lost',
           UNCHANGED <<created, verdict, userKyc, rowKyc, walletKyc, profile, page, starting>>
    PROVE  KycInv(p)'
<1> DEFINE rec == Kyc(p)!AnswerOf(c, said)
<1>1. /\ VerdictTypes(p)
      /\ userKyc \in BOOLEAN /\ rowKyc \in BOOLEAN /\ walletKyc \in BOOLEAN
      /\ walletKyc => userKyc \/ "memory" \in lost
      /\ userKyc \/ rowKyc => Approved(p)
  BY DEF KycInv, VerdictTypes, ToldIsHeld
<1>2. rec \in CheckRecords(p) /\ rec.stage = "answered" /\ rec.answer = said
  BY <1>1, CheckRecordsMade
<1>3. check' = [check EXCEPT ![c] = rec]
  OBVIOUS
<1> HIDE DEF rec
<1> QED
  BY <1>1, <1>2, <1>3, OneCheck

\* kycSessionStatus at the server.
LEMMA ServerSteps ==
    ASSUME NEW p \in KycParts,
           KycInv(p), NEW c \in Kyc(p)!Checks,
           \/ Kyc(p)!Load(c) \/ Kyc(p)!Lookup(c) \/ Kyc(p)!Clear(c)
           \/ Kyc(p)!Record(c) \/ Kyc(p)!CheckFails(c)
    PROVE  KycInv(p)'
<1>v. VerdictTypes(p) /\ check[c] \in CheckRecords(p)
  BY DEF KycInv, VerdictTypes
<1>t. /\ VerdictTypes(p) /\ check[c] \in CheckRecords(p)
      /\ walletKyc => userKyc \/ "memory" \in lost
      /\ userKyc \/ rowKyc => Approved(p)
      /\ check[c].answer = "approved" => Approved(p)
      /\ check[c].stage = "loaded" => check[c].session \in created
      /\ check[c].stage = "record" => check[c].answer = "approved"
      /\ session \in created \cup {NoSession}
  BY <1>v DEF KycInv, AnswersAreApprovals, ToldIsHeld, SessionsExist
<1>f. /\ userKyc \in BOOLEAN /\ rowKyc \in BOOLEAN /\ walletKyc \in BOOLEAN
      /\ created \subseteq KycSessions[p]
  BY <1>t DEF VerdictTypes
<1>1. CASE Kyc(p)!Load(c)
  <2>1. /\ UNCHANGED <<created, verdict, userKyc, rowKyc, walletKyc, profile, page, starting, lost>>
        /\ session' \in {session, NoSession}
    BY <1>1 DEF Kyc!Load, Kyc!screenVars
  <2>2. CASE Kyc(p)!Moves(c, "asked", Kyc(p)!AnswerOf(c, "none"))
    BY <2>1, <2>2, NotApproved DEF Kyc!Moves
  <2>3. CASE /\ session # NoSession
             /\ Kyc(p)!Moves(c, "asked", [check[c] EXCEPT !.stage = "loaded", !.session = session])
    <3> DEFINE rec == [check[c] EXCEPT !.stage = "loaded", !.session = session]
    <3>1. /\ rec \in CheckRecords(p) /\ rec.stage = "loaded" /\ rec.session = session
          /\ rec.answer = check[c].answer
      BY <1>t DEF VerdictTypes, CheckRecords, CheckStages
    <3>2. check' = [check EXCEPT ![c] = rec] /\ session \in created
      BY <1>t, <2>3 DEF Kyc!Moves
    <3> HIDE DEF rec
    <3> QED
      BY <1>t, <1>f, <2>1, <3>1, <3>2, OneCheck
  <2> QED
    BY <1>1, <2>2, <2>3 DEF Kyc!Load
<1>2. CASE Kyc(p)!Lookup(c)
  <2>1. UNCHANGED <<session, created, verdict, userKyc, rowKyc, walletKyc, profile, page, starting, lost>>
    BY <1>2 DEF Kyc!Lookup, Kyc!serverVars, Kyc!screenVars
  <2> DEFINE result == Kyc(p)!LookupResult(check[c].session)
             rec == [check[c] EXCEPT !.stage = "clear", !.session = NoSession, !.answer = result]
  <2>2. check[c].stage = "loaded" /\ check[c].session \in created
    BY <1>t, <1>2 DEF Kyc!Lookup
  <2>3. result \in Kyc(p)!Verdicts /\ (result = "approved" => Approved(p))
    BY <1>t, <2>2 DEF Kyc!LookupResult, Approved, VerdictTypes, Kyc!AttemptOf, Kyc!Verdicts
  <2>4. CASE result = "pending"
    <3>1. check' = [check EXCEPT ![c] = Kyc(p)!AnswerOf(c, "pending")]
      BY <1>2, <2>4 DEF Kyc!Lookup, Kyc!Moves
    <3> QED
      BY <2>1, <3>1, NotApproved DEF Kyc!Verdicts
  <2>5. CASE result # "pending"
    <3>1. check' = [check EXCEPT ![c] = rec]
      BY <1>2, <2>5 DEF Kyc!Lookup, Kyc!Moves
    <3>2. rec \in CheckRecords(p) /\ rec.stage = "clear" /\ rec.answer = result
      BY <1>t, <2>3 DEF VerdictTypes, CheckRecords, CheckStages
    <3> HIDE DEF rec, result
    <3> QED
      BY <1>t, <1>f, <2>1, <2>3, <3>1, <3>2, OneCheck
  <2> QED
    BY <2>4, <2>5
<1>3. CASE Kyc(p)!Clear(c)
  <2>1. /\ UNCHANGED <<created, verdict, userKyc, rowKyc, walletKyc, profile, page, starting, lost>>
        /\ session' \in {session, NoSession}
    BY <1>3 DEF Kyc!Clear, Kyc!screenVars
  <2>2. CASE /\ check[c].answer = "approved"
             /\ Kyc(p)!Moves(c, "clear", [check[c] EXCEPT !.stage = "record"])
    <3> DEFINE rec == [check[c] EXCEPT !.stage = "record"]
    <3>1. rec \in CheckRecords(p) /\ rec.stage = "record" /\ rec.answer = check[c].answer
      BY <1>t DEF CheckRecords, CheckStages
    <3>2. check' = [check EXCEPT ![c] = rec]
      BY <2>2 DEF Kyc!Moves
    <3> HIDE DEF rec
    <3> QED
      BY <1>t, <1>f, <2>1, <2>2, <3>1, <3>2, OneCheck
  <2>3. CASE /\ check[c].answer # "approved"
             /\ Kyc(p)!Moves(c, "clear", Kyc(p)!AnswerOf(c, check[c].answer))
    <3>1. check' = [check EXCEPT ![c] = Kyc(p)!AnswerOf(c, check[c].answer)]
      BY <2>3 DEF Kyc!Moves
    <3>2. check[c].answer \in Kyc(p)!Verdicts \cup {"none", "error"}
      BY <1>t DEF CheckRecords
    <3> QED
      BY <2>1, <2>3, <3>1, <3>2, NotApproved
  <2> QED
    BY <1>3, <2>2, <2>3 DEF Kyc!Clear
<1>4. CASE Kyc(p)!Record(c)
  <2>1. /\ UNCHANGED <<session, created, verdict, rowKyc, walletKyc, profile, page, starting, lost>>
        /\ userKyc' = TRUE
    BY <1>4 DEF Kyc!Record, Kyc!screenVars
  <2>2. /\ check[c].stage = "record" /\ Approved(p)
        /\ \E said \in {"approved", "error"} :
              check' = [check EXCEPT ![c] = Kyc(p)!AnswerOf(c, said)]
    BY <1>t, <1>4 DEF Kyc!Record, Kyc!Moves
  <2>3. PICK said \in {"approved", "error"} :
         check' = [check EXCEPT ![c] = Kyc(p)!AnswerOf(c, said)]
    BY <2>2
  <2> DEFINE rec == Kyc(p)!AnswerOf(c, said)
  <2>4. said \in Kyc(p)!Verdicts \cup {"none", "error"}
    BY DEF Kyc!Verdicts
  <2>5. rec \in CheckRecords(p) /\ rec.stage = "answered"
    BY <1>t, <2>4, CheckRecordsMade
  <2>6. check' = [check EXCEPT ![c] = rec]
    BY <2>3
  <2> HIDE DEF rec
  <2> QED
    BY <1>t, <1>f, <2>1, <2>2, <2>5, <2>6, OneCheck
<1>5. CASE Kyc(p)!CheckFails(c)
  <2>1. /\ UNCHANGED <<session, created, verdict, userKyc, rowKyc, walletKyc, profile, page, starting>>
        /\ lost \subseteq lost'
        /\ check' = [check EXCEPT ![c] = Kyc(p)!AnswerOf(c, "error")]
    BY <1>5 DEF Kyc!CheckFails, Kyc!serverVars, Kyc!screenVars
  <2> QED
    BY <2>1, NotApproved
<1> QED
  BY <1>1, <1>2, <1>3, <1>4, <1>5

\* A restart forgets what memory alone held, and says so.
LEMMA KycRestartSteps ==
    ASSUME NEW p \in KycParts,
           KycInv(p), Kyc(p)!ApiRestarts
    PROVE  KycInv(p)'
<1>1. /\ UNCHANGED <<session, created, verdict, rowKyc, walletKyc, profile, page, starting>>
      /\ lost \subseteq lost' /\ userKyc' = rowKyc
      /\ userKyc /\ ~rowKyc => "memory" \in lost'
  BY DEF Kyc!ApiRestarts, Kyc!screenVars
<1>2. \A c \in Kyc(p)!Checks : check'[c] = IF check[c].stage \in {"idle", "answered"} THEN check[c]
                                    ELSE Kyc(p)!AnswerOf(c, "error")
  BY DEF Kyc!ApiRestarts
<1>3. check' \in [Kyc(p)!Checks -> CheckRecords(p)]
  <2>1. \A c \in Kyc(p)!Checks :
           check[c] \in CheckRecords(p) /\ Kyc(p)!AnswerOf(c, "error") \in CheckRecords(p)
    BY CheckRecordsMade DEF KycInv, VerdictTypes
  <2> QED
    BY <2>1 DEF Kyc!ApiRestarts
<1>4. VerdictTypes(p)' /\ (Approved(p)' <=> Approved(p))
  BY <1>1, <1>3 DEF KycInv, VerdictTypes, Approved, Kyc!AttemptOf
<1>5. \A c \in Kyc(p)!Checks :
         \/ check'[c] = check[c] /\ check[c].stage \in {"idle", "answered"}
         \/ check'[c].stage = "answered" /\ check'[c].answer = "error"
  BY <1>2, CheckRecordsMade DEF KycInv
<1>6. SessionsExist(p)' /\ AnswersAreApprovals(p)'
  BY <1>1, <1>4, <1>5 DEF KycInv, SessionsExist, AnswersAreApprovals
<1>7. userKyc' \/ "memory" \in lost' \/ ~(userKyc \/ "memory" \in lost)
  BY <1>1 DEF KycInv, VerdictTypes
<1>8. ToldIsHeld(p)'
  BY <1>1, <1>5, <1>7 DEF KycInv, ToldIsHeld
<1> QED
  BY <1>1, <1>4, <1>6, <1>8 DEF KycInv

\* updateUserKYC's write of the row.
LEMMA KycRowSteps ==
    ASSUME NEW p \in KycParts,
           KycInv(p), Kyc(p)!WriteUserRow
    PROVE  KycInv(p)'
<1>1. /\ UNCHANGED <<session, created, verdict, check, userKyc, walletKyc, profile, page, starting, lost>>
      /\ userKyc /\ rowKyc' = TRUE
  BY DEF Kyc!WriteUserRow, Kyc!screenVars
<1> QED
  BY <1>1 DEF KycInv, VerdictTypes, SessionsExist, AnswersAreApprovals, ToldIsHeld, Approved,
              Kyc!AttemptOf

\* A check starts or its answer is taken: the wallet turns VERIFIED only on an
\* approval.
LEMMA AnswerTaken ==
    ASSUME NEW p \in KycParts,
           KycInv(p), NEW c \in Kyc(p)!Checks, NEW rec \in CheckRecords(p),
           rec.stage \in {"idle", "asked"}, rec.answer = "none",
           check' = [check EXCEPT ![c] = rec],
           walletKyc' \in BOOLEAN,
           walletKyc' => walletKyc \/ (check[c].stage = "answered" /\ check[c].answer = "approved"),
           lost \subseteq lost',
           UNCHANGED <<Kyc(p)!serverVars, profile, page, starting>>
    PROVE  KycInv(p)'
<1>1. /\ userKyc \/ "memory" \in lost => userKyc' \/ "memory" \in lost'
      /\ walletKyc' => userKyc \/ "memory" \in lost
      /\ userKyc' \in BOOLEAN /\ rowKyc' \in BOOLEAN
      /\ userKyc' \/ rowKyc' => Approved(p)
      /\ session' = session
      /\ UNCHANGED <<created, verdict, profile, page, starting>>
  BY DEF KycInv, VerdictTypes, ToldIsHeld, Kyc!serverVars
<1> QED
  BY <1>1, OneCheck

LEMMA WalletSteps ==
    ASSUME NEW p \in KycParts,
           KycInv(p), \/ Kyc(p)!LoopAsks \/ Kyc(p)!LoopHandles
           \/ Kyc(p)!QuietAsks \/ Kyc(p)!QuietHandles \/ Kyc(p)!MountHandles
    PROVE  KycInv(p)'
<1>t. /\ VerdictTypes(p) /\ {"loop", "quiet", "mount"} \subseteq Kyc(p)!Checks
      /\ walletKyc \in BOOLEAN /\ page \in KycSessions[p] \cup {NoSession}
  BY DEF KycInv, VerdictTypes, Kyc!Checks
<1>n. /\ Kyc(p)!NoCheck \in CheckRecords(p) /\ Kyc(p)!NoCheck.stage = "idle"
      /\ Kyc(p)!NoCheck.answer = "none"
      /\ \A s0 \in KycSessions[p] \cup {NoSession} :
            LET asked == [Kyc(p)!NoCheck EXCEPT !.stage = "asked", !.page = s0] IN
            asked \in CheckRecords(p) /\ asked.stage = "asked" /\ asked.answer = "none"
  BY DEF CheckRecords, Kyc!NoCheck, CheckStages, Kyc!Verdicts
<1>1. CASE Kyc(p)!LoopAsks
  <2>1. UNCHANGED <<Kyc(p)!serverVars, walletKyc, profile, page, starting, lost>>
    BY <1>1 DEF Kyc!LoopAsks
  <2>2. CASE cancel
    <3>1. UNCHANGED check
      BY <1>1, <2>2 DEF Kyc!LoopAsks
    <3> QED
      BY <2>1, <3>1 DEF KycInv, VerdictTypes, SessionsExist, AnswersAreApprovals, ToldIsHeld,
                        Approved, Kyc!AttemptOf, Kyc!serverVars
  <2>3. CASE ~cancel
    <3> DEFINE rec == [Kyc(p)!NoCheck EXCEPT !.stage = "asked"]
    <3>1. check' = [check EXCEPT !["loop"] = rec]
      BY <1>1, <2>3 DEF Kyc!LoopAsks
    <3>2. rec \in CheckRecords(p) /\ rec.stage = "asked" /\ rec.answer = "none"
      BY DEF CheckRecords, Kyc!NoCheck, CheckStages, Kyc!Verdicts
    <3> HIDE DEF rec
    <3> QED
      BY <1>t, <2>1, <3>1, <3>2, AnswerTaken
  <2> QED
    BY <2>2, <2>3
<1>2. CASE Kyc(p)!LoopHandles
  <2>1. /\ UNCHANGED <<Kyc(p)!serverVars, profile, page, starting, lost>>
        /\ check["loop"].stage = "answered" /\ check' = [check EXCEPT !["loop"] = Kyc(p)!NoCheck]
    BY <1>2 DEF Kyc!LoopHandles, Kyc!Moves
  <2>2. /\ walletKyc' \in BOOLEAN /\ lost \subseteq lost'
        /\ walletKyc' => walletKyc \/ check["loop"].answer = "approved"
    BY <1>2, <1>t, <2>1 DEF Kyc!LoopHandles
  <2> QED
    BY <1>t, <1>n, <2>1, <2>2, AnswerTaken
<1>3. CASE Kyc(p)!QuietAsks
  <2> DEFINE rec == [Kyc(p)!NoCheck EXCEPT !.stage = "asked", !.page = page]
  <2>1. /\ UNCHANGED <<Kyc(p)!serverVars, walletKyc, profile, page, starting, lost>>
        /\ check' = [check EXCEPT !["quiet"] = rec]
    BY <1>3 DEF Kyc!QuietAsks, Kyc!Moves, Kyc!screenVars
  <2>2. rec \in CheckRecords(p) /\ rec.stage = "asked" /\ rec.answer = "none"
    BY <1>t, <1>n
  <2> HIDE DEF rec
  <2> QED
    BY <1>t, <2>1, <2>2, AnswerTaken
<1>4. CASE Kyc(p)!QuietHandles
  <2>1. /\ UNCHANGED <<Kyc(p)!serverVars, profile, page, starting, lost>>
        /\ check["quiet"].stage = "answered" /\ check' = [check EXCEPT !["quiet"] = Kyc(p)!NoCheck]
    BY <1>4 DEF Kyc!QuietHandles, Kyc!Moves
  <2>2. /\ walletKyc' \in BOOLEAN /\ lost \subseteq lost'
        /\ walletKyc' => walletKyc \/ check["quiet"].answer = "approved"
    BY <1>4, <1>t, <2>1 DEF Kyc!QuietHandles
  <2> QED
    BY <1>t, <1>n, <2>1, <2>2, AnswerTaken
<1>5. CASE Kyc(p)!MountHandles
  <2>1. /\ UNCHANGED <<Kyc(p)!serverVars, profile, page, starting, lost>>
        /\ check["mount"].stage = "answered" /\ check' = [check EXCEPT !["mount"] = Kyc(p)!NoCheck]
    BY <1>5 DEF Kyc!MountHandles, Kyc!Moves
  <2>2. /\ lost \subseteq lost' /\ walletKyc' \in BOOLEAN
        /\ walletKyc' => walletKyc \/ check["mount"].answer = "approved"
    <3>1. CASE check["mount"].answer = "approved"
      BY <1>5, <2>1, <3>1 DEF Kyc!MountHandles
    <3>2. CASE check["mount"].answer = "pending"
      BY <1>5, <1>t, <2>1, <3>2 DEF Kyc!MountHandles
    <3>3. CASE check["mount"].answer \notin {"approved", "pending"}
      BY <1>5, <1>t, <2>1, <3>3 DEF Kyc!MountHandles
    <3> QED
      BY <3>1, <3>2, <3>3
  <2> QED
    BY <1>t, <1>n, <2>1, <2>2, AnswerTaken
<1> QED
  BY <1>1, <1>2, <1>3, <1>4, <1>5

\* The steps that touch no check and no verdict: the profile that is read says what
\* the API, or the wallet's store, says.
LEMMA ScreenSteps ==
    ASSUME NEW p \in KycParts,
           KycInv(p),
           \/ Kyc(p)!ReadProfile \/ Kyc(p)!LoopRefetched
           \/ Kyc(p)!LoopExhausted \/ Kyc(p)!CloseWebview
           \/ Kyc(p)!CheckAgain \/ Kyc(p)!CancelPolling
           \/ \E s \in KycSessions[p] : Kyc(p)!StartVerification(s) \/ Kyc(p)!SessionStarted(s)
    PROVE  KycInv(p)'
<1>1. UNCHANGED <<Kyc(p)!serverVars, check, walletKyc, lost>>
  BY DEF Kyc!ReadProfile, Kyc!LoopRefetched, Kyc!LoopExhausted, Kyc!CloseWebview, Kyc!CheckAgain,
         Kyc!CancelPolling, Kyc!StartVerification, Kyc!SessionStarted
<1>2. starting' \in KycSessions[p] \cup {NoSession} /\ page' \in KycSessions[p] \cup {NoSession}
  BY DEF KycInv, VerdictTypes, Kyc!ReadProfile, Kyc!LoopRefetched, Kyc!LoopExhausted,
         Kyc!CloseWebview, Kyc!CheckAgain, Kyc!CancelPolling, Kyc!StartVerification,
         Kyc!SessionStarted
<1>3. UNCHANGED profile \/ Kyc(p)!RefetchProfile
  BY DEF Kyc!ReadProfile, Kyc!LoopRefetched, Kyc!LoopExhausted, Kyc!CloseWebview, Kyc!CheckAgain,
         Kyc!CancelPolling, Kyc!StartVerification, Kyc!SessionStarted
<1>4. profile' = "verified" => profile = "verified" \/ userKyc \/ walletKyc
  BY <1>3 DEF Kyc!RefetchProfile, KycInv, VerdictTypes
<1> QED
  BY <1>1, <1>2, <1>4 DEF KycInv, VerdictTypes, SessionsExist, AnswersAreApprovals, ToldIsHeld,
                          Approved, Kyc!AttemptOf, Kyc!serverVars

LEMMA KycInductive ==
    ASSUME NEW p \in KycParts,
           KycInv(p), [Kyc(p)!KycNext]_kycVars
    PROVE  KycInv(p)'
<1>1. CASE UNCHANGED kycVars
  BY <1>1 DEF KycInv, VerdictTypes, SessionsExist, AnswersAreApprovals, ToldIsHeld, Approved,
              Kyc!AttemptOf, kycVars
<1>2. CASE Kyc(p)!KycNext
  BY <1>2, SessionSteps, ServerSteps, KycRowSteps, KycRestartSteps, WalletSteps, ScreenSteps
  DEF Kyc!KycNext
<1> QED
  BY <1>1, <1>2

\* The sessions that may be open when the screen is mounted are sessions.
LEMMA KycStarts ==
    ASSUME NEW p \in KycParts,
           KycOpened[p] \subseteq KycSessions[p], Kyc(p)!KycInit
    PROVE  KycInv(p)
<1>1. VerdictTypes(p)
  BY DEF Kyc!KycInit, VerdictTypes, CheckRecords, Kyc!Checks, CheckStages, Kyc!Verdicts, Kyc!NoCheck
<1>2. /\ session \in created \cup {NoSession}
      /\ \A c \in Kyc(p)!Checks : /\ check[c].stage \in {"idle", "asked"}
                                   /\ check[c].answer = "none"
      /\ profile # "verified"
  BY DEF Kyc!KycInit, Kyc!NoCheck
<1> QED
  BY <1>1, <1>2 DEF Kyc!KycInit, KycInv, SessionsExist, AnswersAreApprovals, ToldIsHeld

\* The rest of the types; a loop that asks has a round left, and one that reads the
\* profile has told the wallet of its approval; and a screen that waits has something
\* to wait for.
LoopRecords == [at : {"off", "top", "asking", "refetch"}, left : 0..Attempts]

ScreenTypes ==
    /\ profile \in {"unread", "other", "verified"}
    /\ phase \in {"intro", "webview", "polling"}
    /\ loop \in LoopRecords
    /\ cancel \in BOOLEAN /\ timedOut \in BOOLEAN /\ stalled \in BOOLEAN
    /\ lost \subseteq {"approval", "memory"}
    /\ loop.at = "asking" => loop.left > 0

LoopTold == loop.at = "refetch" => walletKyc

ScreenWaits ==
    phase = "polling"
        => \/ loop.at \in {"top", "asking"} /\ ~cancel
           \/ timedOut
           \/ starting # NoSession
           \/ walletKyc
           \/ stalled

ScreenInv == ScreenTypes /\ LoopTold /\ ScreenWaits

\* A loop that is started, or found running.
LEMMA LoopRuns ==
    ASSUME NEW p \in KycParts, ScreenTypes, LoopTold, Kyc(p)!RunLoop
    PROVE  /\ loop' \in LoopRecords
           /\ cancel' \in BOOLEAN /\ timedOut' \in BOOLEAN /\ stalled' \in BOOLEAN
           /\ loop'.at = "asking" => loop'.left > 0
           /\ loop'.at = "refetch" => walletKyc
           /\ (loop'.at \in {"top", "asking"} /\ ~cancel') \/ walletKyc \/ stalled'
<1>1. Attempts \in Nat
  BY ServicesAssumption DEF Kyc!KycConstants
<1>2. CASE loop.at # "off"
  BY <1>2 DEF Kyc!RunLoop, ScreenTypes, LoopTold, LoopRecords
<1>3. CASE loop.at = "off"
  <2>1. /\ loop' = [at |-> "top", left |-> Attempts]
        /\ cancel' = FALSE /\ timedOut' = FALSE /\ stalled' = FALSE
    BY <1>3 DEF Kyc!RunLoop
  <2>2. loop' \in LoopRecords /\ loop'.at = "top"
    BY <1>1, <2>1 DEF LoopRecords
  <2> QED
    BY <2>1, <2>2, Zenon
<1> QED
  BY <1>2, <1>3

\* The server's and the provider's steps, and the reads of the profile.
LEMMA ScreenUnseen ==
    ASSUME NEW p \in KycParts, ScreenInv,
           \/ \E a \in KycSessions[p] \cup {NoSession}, v \in Kyc(p)!Verdicts \ {"pending"} :
                 Kyc(p)!Decide(a, v)
           \/ \E c \in Kyc(p)!Checks :
                 \/ Kyc(p)!Load(c) \/ Kyc(p)!Lookup(c) \/ Kyc(p)!Clear(c)
                 \/ Kyc(p)!Record(c) \/ Kyc(p)!CheckFails(c)
           \/ Kyc(p)!WriteUserRow \/ Kyc(p)!ApiRestarts \/ Kyc(p)!ReadProfile
           \/ \E s \in KycSessions[p] : Kyc(p)!SaveSession(s)
           \/ Kyc(p)!QuietAsks
    PROVE  ScreenInv'
<1>1. UNCHANGED <<walletKyc, phase, loop, cancel, timedOut, starting, stalled>>
  BY DEF Kyc!Decide, Kyc!Load, Kyc!Lookup, Kyc!Clear, Kyc!Record, Kyc!CheckFails,
         Kyc!WriteUserRow, Kyc!ApiRestarts, Kyc!SaveSession, Kyc!QuietAsks, Kyc!screenVars,
         Kyc!ReadProfile
<1>2. lost' \subseteq lost \cup {"approval", "memory"}
  <2>1. CASE Kyc(p)!ApiRestarts
    BY <2>1 DEF Kyc!ApiRestarts
  <2>2. CASE \E c \in Kyc(p)!Checks : Kyc(p)!CheckFails(c)
    BY <2>2 DEF Kyc!CheckFails
  <2>3. CASE UNCHANGED lost
    BY <2>3
  <2> QED
    BY <2>1, <2>2, <2>3 DEF Kyc!Decide, Kyc!Load, Kyc!Lookup, Kyc!Clear, Kyc!Record,
       Kyc!WriteUserRow, Kyc!SaveSession, Kyc!QuietAsks, Kyc!ReadProfile
<1>3. UNCHANGED profile \/ Kyc(p)!RefetchProfile
  BY DEF Kyc!Decide, Kyc!Load, Kyc!Lookup, Kyc!Clear, Kyc!Record, Kyc!CheckFails,
         Kyc!WriteUserRow, Kyc!ApiRestarts, Kyc!SaveSession, Kyc!QuietAsks, Kyc!screenVars,
         Kyc!ReadProfile
<1>4. profile' \in {"unread", "other", "verified"}
  BY <1>3 DEF Kyc!RefetchProfile, ScreenInv, ScreenTypes
<1> QED
  BY <1>1, <1>2, <1>4 DEF ScreenInv, ScreenTypes, LoopTold, ScreenWaits

\* The loop's own steps.
LEMMA LoopSteps ==
    ASSUME NEW p \in KycParts, ScreenInv, VerdictTypes(p),
           \/ Kyc(p)!LoopAsks \/ Kyc(p)!LoopHandles
           \/ Kyc(p)!LoopRefetched \/ Kyc(p)!LoopExhausted
    PROVE  ScreenInv'
<1>c. Attempts \in Nat
  BY ServicesAssumption DEF Kyc!KycConstants
<1>w. walletKyc \in BOOLEAN
  BY DEF VerdictTypes
<1>o. Kyc(p)!LoopOff \in LoopRecords /\ Kyc(p)!LoopOff.at = "off"
  BY <1>c DEF Kyc!LoopOff, LoopRecords
<1>1. CASE Kyc(p)!LoopAsks
  <2>1. /\ UNCHANGED <<walletKyc, profile, phase, cancel, timedOut, starting, stalled, lost>>
        /\ loop.left > 0
        /\ \/ cancel /\ loop' = Kyc(p)!LoopOff
           \/ ~cancel /\ loop' = [loop EXCEPT !.at = "asking"]
    BY <1>1 DEF Kyc!LoopAsks
  <2>2. CASE cancel /\ loop' = Kyc(p)!LoopOff
    BY <1>o, <2>1, <2>2 DEF ScreenInv, ScreenTypes, LoopTold, ScreenWaits
  <2>3. CASE ~cancel /\ loop' = [loop EXCEPT !.at = "asking"]
    <3>1. loop' \in LoopRecords /\ loop'.at = "asking" /\ loop'.left = loop.left
      BY <2>3 DEF ScreenInv, ScreenTypes, LoopRecords
    <3> QED
      BY <2>1, <2>3, <3>1 DEF ScreenInv, ScreenTypes, LoopTold, ScreenWaits
  <2> QED
    BY <2>1, <2>2, <2>3
<1>2. CASE Kyc(p)!LoopHandles
  <2> DEFINE said == check["loop"].answer
  <2>1. /\ loop.at = "asking" /\ UNCHANGED <<profile, cancel, timedOut, starting, lost>>
        /\ walletKyc' = (walletKyc \/ (~cancel /\ said = "approved"))
        /\ IF ~cancel /\ (Kyc(p)!Decided(said) \/ said = "none")
           THEN phase' = "intro" /\ stalled' = FALSE
           ELSE UNCHANGED <<phase, stalled>>
    BY <1>2 DEF Kyc!LoopHandles
  <2>2. loop' = CASE cancel -> Kyc(p)!LoopOff
                  [] ~cancel /\ said = "approved" -> [loop EXCEPT !.at = "refetch"]
                  [] ~cancel /\ said \in {"rejected", "abandoned", "none"} -> Kyc(p)!LoopOff
                  [] ~cancel /\ said \in {"pending", "error"} ->
                         [at |-> "top", left |-> loop.left - 1]
    BY <1>2 DEF Kyc!LoopHandles
  <2>3. loop.left \in Nat /\ loop.left - 1 \in 0..Attempts
    BY <1>c, <2>1 DEF ScreenInv, ScreenTypes, LoopRecords
  <2> HIDE DEF said
  <2>4. CASE cancel
    <3>1. loop' = Kyc(p)!LoopOff /\ UNCHANGED <<phase, stalled, walletKyc>>
      BY <1>w, <2>1, <2>2, <2>4
    <3> QED
      BY <1>o, <2>1, <2>4, <3>1 DEF ScreenInv, ScreenTypes, LoopTold, ScreenWaits
  <2>5. CASE ~cancel /\ said = "approved"
    <3>1. /\ loop' = [loop EXCEPT !.at = "refetch"] /\ walletKyc'
          /\ phase' = "intro" /\ stalled' = FALSE
      BY <2>1, <2>2, <2>5 DEF Kyc!Decided
    <3>2. loop' \in LoopRecords /\ loop'.at = "refetch"
      BY <3>1 DEF ScreenInv, ScreenTypes, LoopRecords
    <3> QED
      BY <2>1, <3>1, <3>2 DEF ScreenInv, ScreenTypes, LoopTold, ScreenWaits
  <2>6. CASE ~cancel /\ said \in {"rejected", "abandoned", "none"}
    <3>1. loop' = Kyc(p)!LoopOff /\ phase' = "intro" /\ stalled' = FALSE
      BY <2>1, <2>2, <2>6 DEF Kyc!Decided
    <3> QED
      BY <1>o, <2>1, <3>1 DEF ScreenInv, ScreenTypes, LoopTold, ScreenWaits
  <2>7. CASE ~cancel /\ said \in {"pending", "error"}
    <3>1. /\ loop' = [at |-> "top", left |-> loop.left - 1]
          /\ UNCHANGED <<phase, stalled>>
      BY <2>1, <2>2, <2>7 DEF Kyc!Decided
    <3>2. loop' \in LoopRecords /\ loop'.at = "top"
      BY <2>3, <3>1 DEF LoopRecords
    <3> QED
      BY <2>1, <2>7, <3>1, <3>2 DEF ScreenInv, ScreenTypes, LoopTold, ScreenWaits
  <2>8. said \in {"approved", "rejected", "abandoned", "none", "pending", "error"}
    BY DEF VerdictTypes, CheckRecords, Kyc!Checks, Kyc!Verdicts, said
  <2> QED
    BY <2>4, <2>5, <2>6, <2>7, <2>8
<1>3. CASE Kyc(p)!LoopRefetched
  <2>1. /\ loop.at = "refetch" /\ loop' = Kyc(p)!LoopOff /\ Kyc(p)!RefetchProfile
        /\ UNCHANGED <<walletKyc, phase, cancel, timedOut, starting, stalled, lost>>
    BY <1>3 DEF Kyc!LoopRefetched
  <2>2. profile' \in {"unread", "other", "verified"}
    BY <2>1 DEF Kyc!RefetchProfile, ScreenInv, ScreenTypes
  <2> QED
    BY <1>o, <2>1, <2>2 DEF ScreenInv, ScreenTypes, LoopTold, ScreenWaits
<1>4. CASE Kyc(p)!LoopExhausted
  <2>1. /\ loop' = Kyc(p)!LoopOff
        /\ UNCHANGED <<walletKyc, profile, cancel, starting, stalled, lost>>
        /\ IF cancel THEN UNCHANGED <<timedOut, phase>> ELSE timedOut' = TRUE /\ phase' = "polling"
    BY <1>4 DEF Kyc!LoopExhausted
  <2> QED
    BY <1>o, <2>1 DEF ScreenInv, ScreenTypes, LoopTold, ScreenWaits
<1> QED
  BY <1>1, <1>2, <1>3, <1>4

\* The screen's steps.
LEMMA ScreenSeen ==
    ASSUME NEW p \in KycParts, ScreenInv, VerdictTypes(p),
           \/ \E s \in KycSessions[p] : Kyc(p)!StartVerification(s) \/ Kyc(p)!SessionStarted(s)
           \/ Kyc(p)!StartFails \/ Kyc(p)!CloseWebview \/ Kyc(p)!CheckAgain
           \/ Kyc(p)!CancelPolling \/ Kyc(p)!QuietHandles \/ Kyc(p)!MountHandles
    PROVE  ScreenInv'
<1>c. NoSession \notin KycSessions[p]
  BY ServicesAssumption DEF Kyc!KycConstants
<1>r. ASSUME phase' = "polling", Kyc(p)!RunLoop, UNCHANGED <<walletKyc, profile, lost>>
      PROVE  ScreenInv'
  BY <1>r, LoopRuns DEF ScreenInv, ScreenTypes, LoopTold, ScreenWaits
<1>1. ASSUME NEW s \in KycSessions[p], Kyc(p)!StartVerification(s)
      PROVE  ScreenInv'
  BY <1>1, <1>c DEF Kyc!StartVerification, ScreenInv, ScreenTypes, LoopTold, ScreenWaits
<1>2. ASSUME NEW s \in KycSessions[p], Kyc(p)!SessionStarted(s)
      PROVE  ScreenInv'
  <2>1. UNCHANGED <<walletKyc, profile, lost>>
    BY <1>2 DEF Kyc!SessionStarted
  <2>2. CASE phase' = "webview" /\ stalled' = FALSE /\ UNCHANGED <<loop, cancel, timedOut>>
    BY <2>1, <2>2 DEF ScreenInv, ScreenTypes, LoopTold, ScreenWaits
  <2>3. CASE phase' = "polling" /\ Kyc(p)!RunLoop
    BY <1>r, <2>1, <2>3
  <2> QED
    BY <1>2, <2>2, <2>3 DEF Kyc!SessionStarted
<1>3. CASE Kyc(p)!StartFails
  BY <1>3 DEF Kyc!StartFails, ScreenInv, ScreenTypes, LoopTold, ScreenWaits
<1>4. CASE Kyc(p)!CloseWebview
  BY <1>4, <1>r DEF Kyc!CloseWebview
<1>5. CASE Kyc(p)!CheckAgain
  BY <1>5, <1>r DEF Kyc!CheckAgain
<1>6. CASE Kyc(p)!CancelPolling
  BY <1>6 DEF Kyc!CancelPolling, ScreenInv, ScreenTypes, LoopTold, ScreenWaits
<1>7. CASE Kyc(p)!QuietHandles
  <2>1. /\ UNCHANGED <<profile, loop, cancel, timedOut, starting, stalled, lost>>
        /\ phase' \in {phase, "intro"} /\ (walletKyc => walletKyc')
    BY <1>7 DEF Kyc!QuietHandles
  <2> QED
    BY <2>1 DEF ScreenInv, ScreenTypes, LoopTold, ScreenWaits
<1>8. CASE Kyc(p)!MountHandles
  <2>1. UNCHANGED <<profile, starting, lost>>
    BY <1>8 DEF Kyc!MountHandles
  <2>2. \/ /\ phase' = "intro" /\ stalled' = FALSE /\ walletKyc' = TRUE
           /\ UNCHANGED <<loop, cancel, timedOut>>
        \/ phase' = "polling" /\ Kyc(p)!RunLoop /\ UNCHANGED walletKyc
        \/ UNCHANGED <<phase, walletKyc, loop, cancel, timedOut, stalled>>
    BY <1>8 DEF Kyc!MountHandles
  <2>3. CASE /\ phase' = "intro" /\ stalled' = FALSE /\ walletKyc' = TRUE
             /\ UNCHANGED <<loop, cancel, timedOut>>
    BY <2>1, <2>3 DEF ScreenInv, ScreenTypes, LoopTold, ScreenWaits
  <2>4. CASE phase' = "polling" /\ Kyc(p)!RunLoop /\ UNCHANGED walletKyc
    BY <1>r, <2>1, <2>4
  <2>5. CASE UNCHANGED <<phase, walletKyc, loop, cancel, timedOut, stalled>>
    BY <2>1, <2>5 DEF ScreenInv, ScreenTypes, LoopTold, ScreenWaits
  <2> QED
    BY <2>2, <2>3, <2>4, <2>5
<1> QED
  BY <1>1, <1>2, <1>3, <1>4, <1>5, <1>6, <1>7, <1>8

LEMMA ScreenInductive ==
    ASSUME NEW p \in KycParts, ScreenInv, VerdictTypes(p), [Kyc(p)!KycNext]_kycVars
    PROVE  ScreenInv'
<1>1. CASE UNCHANGED kycVars
  BY <1>1 DEF kycVars, ScreenInv, ScreenTypes, LoopTold, ScreenWaits
<1>2. CASE Kyc(p)!KycNext
  BY <1>2, ScreenUnseen, LoopSteps, ScreenSeen DEF Kyc!KycNext
<1> QED
  BY <1>1, <1>2

LEMMA KycStands ==
    ServicesSpec => [](\A p \in KycParts : part = p => KycInv(p) /\ ScreenInv)
<1> DEFINE Inv == \A p \in KycParts : part = p => KycInv(p) /\ ScreenInv
<1>1. ServicesInit => Inv
  <2>1. SUFFICES ASSUME ServicesInit, NEW p \in KycParts, part = p
                 PROVE  KycInv(p) /\ ScreenInv
    OBVIOUS
  <2>2. Kyc(p)!KycInit
    BY <2>1 DEF ServicesInit, ComponentsInit
  <2>3. KycOpened[p] \subseteq KycSessions[p] /\ Attempts \in Nat
    BY ServicesAssumption DEF Kyc!KycConstants
  <2>4. KycInv(p)
    BY <2>2, <2>3, KycStarts
  <2>5. /\ phase = "intro" /\ cancel = FALSE /\ timedOut = FALSE /\ lost = {}
        /\ stalled = FALSE /\ profile \in {"unread", "other"}
        /\ loop = [at |-> "off", left |-> 0]
    BY <2>2 DEF Kyc!KycInit, Kyc!LoopOff
  <2>6. loop \in LoopRecords /\ loop.at = "off"
    BY <2>3, <2>5 DEF LoopRecords
  <2>7. ScreenInv
    BY <2>5, <2>6 DEF ScreenInv, ScreenTypes, LoopTold, ScreenWaits
  <2> QED
    BY <2>4, <2>7
<1>2. Inv /\ [ServicesNext]_servicesVars => Inv'
  <2>1. SUFFICES ASSUME Inv, [ServicesNext]_servicesVars, NEW p \in KycParts, part' = p
                 PROVE  (KycInv(p) /\ ScreenInv)'
    OBVIOUS
  <2>2. part = p /\ [Kyc(p)!KycNext]_kycVars
    BY <2>1, Part
  <2>3. KycInv(p) /\ ScreenInv /\ VerdictTypes(p)
    BY <2>1, <2>2 DEF KycInv
  <2> HIDE DEF Inv
  <2> QED
    BY <2>2, <2>3, KycInductive, ScreenInductive
<1> QED
  BY <1>1, <1>2, PTL DEF ServicesSpec

\* A wallet shows VERIFIED only what the provider approved: VerifiedWasApproved, for
\* any number of set-ups, sessions and attempts, whichever provider each session
\* had, and every set of faults.
THEOREM VerifiedUsersWereApproved == ServicesSpec => []VerifiedWasApproved
<1>1. ASSUME NEW p \in KycParts, KycInv(p) PROVE Kyc(p)!VerifiedWasApproved
  BY <1>1 DEF KycInv, VerdictTypes, ToldIsHeld, Kyc!VerifiedWasApproved, Approved, Kyc!AttemptOf
<1>2. (\A p \in KycParts : part = p => KycInv(p) /\ ScreenInv)
        => VerifiedWasApproved
  BY <1>1 DEF VerifiedWasApproved
<1> QED
  BY <1>2, KycStands, PTL

\* A screen that confirms waits for something: WaitingIsForSomething, for any number
\* of set-ups, sessions and attempts, and every set of faults, those of the reads of
\* the profile among them.
THEOREM ScreensWaitForSomething == ServicesSpec => []WaitingIsForSomething
<1>1. ASSUME NEW p \in KycParts, KycInv(p), ScreenInv
      PROVE  Kyc(p)!KycTypeOK /\ Kyc(p)!WaitingIsForSomething
  <2>1. Kyc(p)!KycTypeOK
    BY <1>1 DEF KycInv, VerdictTypes, CheckRecords, CheckStages, ScreenInv, ScreenTypes,
                LoopRecords, Kyc!KycTypeOK
  <2>2. Kyc(p)!WaitingIsForSomething
    BY <1>1 DEF ScreenInv, ScreenWaits, KycInv, ToldIsHeld, Kyc!WaitingIsForSomething
  <2> QED
    BY <2>1, <2>2
<1>2. (\A p \in KycParts : part = p => KycInv(p) /\ ScreenInv)
        => WaitingIsForSomething
  BY <1>1 DEF WaitingIsForSomething
<1> QED
  BY <1>2, KycStands, PTL
=============================================================================
