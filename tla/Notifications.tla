---------------------------- MODULE Notifications ----------------------------
(***************************************************************************)
(* A user's notifications: rows in the database, the list the API keeps in *)
(* memory for when the database does not answer, and the copy the wallet   *)
(* shows, with its badge.  The wallet asks for the list now and then,      *)
(* changes its copy before the API has heard of a change, and asks again   *)
(* when the change is answered; that cancels the request under way, whose  *)
(* answer is then ignored, though the API goes on with it.                 *)
(***************************************************************************)
EXTENDS Naturals, FiniteSets

CONSTANTS
    Notes,          \* the notifications
    Marks,          \* the changes the user may make: notes, or "all" of them
    Gets,           \* requests for the list that may overlap
    Faults          \* which of {"restart", "lost", "refused", "unread"} may happen

\* "all" is not a notification, nor "none" a request.
NotesConstants ==
    /\ IsFiniteSet(Notes) /\ "all" \notin Notes
    /\ Marks \subseteq Notes \cup {"all"}
    /\ "none" \notin Gets

VARIABLES
    rows,           \* rows[n]: the "Notification" row
    list,           \* LedgerService.notifications of the user
    inserts,        \* rows that addNotification has not written yet
    get,            \* get[g]: a request for the list
    patch,          \* patch[m]: the request that makes change m
    cache,          \* what the wallet shows: [notes, badge, source]
    current,        \* the request whose answer the wallet waits for, "none" if none
    marked,         \* (history) notes whose change the database has and the wallet knows of
    settled         \* (history) those of them that a later request has shown

noteVars == <<rows, list, inserts, get, patch, cache, current, marked, settled>>

Contents == [Notes -> {"none", "unread", "read"}]
Empty == [n \in Notes |-> "none"]
Blank == [notes |-> Empty, badge |-> 0, source |-> "none"]
NoGet == [at |-> "none", notes |-> Empty, source |-> "none", after |-> {}]

Unread(c) == Cardinality({n \in Notes : c[n] = "unread"})

NotesTypeOK ==
    /\ rows \in Contents /\ list \in Contents
    /\ inserts \subseteq Notes
    /\ get \in [Gets -> [at : {"none", "asked", "read", "answered"}, notes : Contents,
                         source : {"none", "database", "memory"}, after : SUBSET Notes]]
    /\ patch \in [Marks -> {"none", "asked", "listed", "stored", "refused"}]
    /\ cache \in [notes : Contents, badge : Nat, source : {"none", "database", "memory"}]
    /\ current \in Gets \cup {"none"}
    /\ settled \subseteq marked /\ marked \subseteq Notes

NotesInit ==
    /\ rows = Empty /\ list = Empty /\ inserts = {}
    /\ get = [g \in Gets |-> NoGet] /\ patch = [m \in Marks |-> "none"]
    /\ cache = Blank /\ current = "none"
    /\ marked = {} /\ settled = {}

Meant(m) == IF m = "all" THEN Notes ELSE {m}

Read(c, m) == [n \in Notes |-> IF n \in Meant(m) /\ c[n] = "unread" THEN "read" ELSE c[n]]

-----------------------------------------------------------------------------
(* New notifications.                                                      *)

\* addNotification: the list at once, the row later.
AddNotification(n) ==
    /\ rows[n] = "none" /\ list[n] = "none" /\ n \notin inserts
    /\ list' = [list EXCEPT ![n] = "unread"]
    /\ inserts' = inserts \cup {n}
    /\ UNCHANGED <<rows, get, patch, cache, current, marked, settled>>

\* The row is written or refused; the refusal is logged.
Insert(n) ==
    /\ n \in inserts
    /\ inserts' = inserts \ {n}
    /\ \/ rows' = [rows EXCEPT ![n] = "unread"]
       \/ "refused" \in Faults /\ UNCHANGED rows
    /\ UNCHANGED <<list, get, patch, cache, current, marked, settled>>

-----------------------------------------------------------------------------
(* The list.                                                               *)

\* (mutant) a request under way is not cancelled, and serves for the new one
Ask_Shared(g) ==
    /\ get[g].at = "none"
    /\ IF current = "none"
       THEN current' = g /\ get' = [get EXCEPT ![g] = [NoGet EXCEPT !.at = "asked", !.after = marked']]
       ELSE get' = [get EXCEPT ![current].after = marked'] /\ UNCHANGED current

\* invalidateQueries: a new request, whatever is under way.
Ask(g) ==
    /\ get[g].at = "none"
    /\ g = CHOOSE h \in Gets : get[h].at = "none"       \* whichever it is
    /\ current' = g
    /\ get' = [get EXCEPT ![g] = [NoGet EXCEPT !.at = "asked", !.after = marked']]

\* refetchInterval, which waits for a request under way, and pull to refresh, which
\* cancels it.
Refetch(g) ==
    /\ UNCHANGED <<rows, list, inserts, patch, cache, marked, settled>>
    /\ Ask(g)

\* getUserNotifications: the rows, or the list if the database does not answer.
ReadRows(g) ==
    /\ get[g].at = "asked"
    /\ \/ get' = [get EXCEPT ![g].at = "read", ![g].notes = rows, ![g].source = "database"]
       \/ /\ "unread" \in Faults
          /\ get' = [get EXCEPT ![g].at = "answered", ![g].notes = list, ![g].source = "memory"]
    /\ UNCHANGED <<rows, list, inserts, patch, cache, current, marked, settled>>

\* The rows replace the list.
KeepRows(g) ==
    /\ get[g].at = "read"
    /\ list' = get[g].notes
    /\ get' = [get EXCEPT ![g].at = "answered"]
    /\ UNCHANGED <<rows, inserts, patch, cache, current, marked, settled>>

\* The answer, which the wallet shows if it still waits for it.
GetAnswered(g) ==
    /\ get[g].at = "answered"
    /\ get' = [get EXCEPT ![g] = NoGet]
    /\ IF current = g
       THEN /\ cache' = [notes |-> get[g].notes, badge |-> Unread(get[g].notes),
                         source |-> get[g].source]
            /\ current' = "none"
            /\ settled' = settled \cup get[g].after
       ELSE UNCHANGED <<cache, current, settled>>
    /\ UNCHANGED <<rows, list, inserts, patch, marked>>

GetLost(g) ==
    /\ "lost" \in Faults
    /\ get[g].at # "none"
    /\ get' = [get EXCEPT ![g] = NoGet]
    /\ current' = IF current = g THEN "none" ELSE current
    /\ UNCHANGED <<rows, list, inserts, patch, cache, marked, settled>>

\* An answer without success counts as an empty list.
GetRefused(g) ==
    /\ "refused" \in Faults
    /\ get[g].at = "asked"
    /\ get' = [get EXCEPT ![g] = NoGet]
    /\ IF current = g THEN cache' = Blank /\ current' = "none" ELSE UNCHANGED <<cache, current>>
    /\ UNCHANGED <<rows, list, inserts, patch, marked, settled>>

-----------------------------------------------------------------------------
(* The changes.                                                            *)

\* markRead of an unread notification, markAllRead: the copy first.
Mark(m) ==
    /\ patch[m] = "none"
    /\ IF m = "all" THEN cache.badge > 0 ELSE cache.notes[m] = "unread"
    /\ cache' = [cache EXCEPT !.notes = Read(@, m),
                   !.badge = IF m = "all" THEN 0 ELSE IF @ = 0 THEN 0 ELSE @ - 1]
    /\ patch' = [patch EXCEPT ![m] = "asked"]
    /\ UNCHANGED <<rows, list, inserts, get, current, marked, settled>>

\* markNotificationRead and markAllNotificationsRead: the list, ...
MarkList(m) ==
    /\ patch[m] = "asked"
    /\ list' = Read(list, m)
    /\ patch' = [patch EXCEPT ![m] = "listed"]
    /\ UNCHANGED <<rows, inserts, get, cache, current, marked, settled>>

\* ... then the rows, whose refusal is not told.
MarkRows(m) ==
    /\ patch[m] = "listed"
    /\ \/ rows' = Read(rows, m) /\ patch' = [patch EXCEPT ![m] = "stored"]
       \/ "refused" \in Faults /\ patch' = [patch EXCEPT ![m] = "refused"] /\ UNCHANGED rows
    /\ UNCHANGED <<list, inserts, get, cache, current, marked, settled>>

\* The answer; the list is asked for again.
MarkAnswered(m, g) ==
    /\ patch[m] \in {"stored", "refused"}
    /\ patch' = [patch EXCEPT ![m] = "none"]
    /\ marked' = IF patch[m] = "stored" THEN marked \cup {n \in Meant(m) : rows[n] = "read"}
                                        ELSE marked
    /\ Ask(g)
    /\ UNCHANGED <<rows, list, inserts, cache, settled>>

\* Request or answer is lost: the wallet asks again all the same, and the API may
\* still be at it.
MarkLost(m, g) ==
    /\ "lost" \in Faults
    /\ patch[m] # "none"
    /\ patch' = [patch EXCEPT ![m] = "none"]
    /\ \/ UNCHANGED <<rows, list>>
       \/ patch[m] = "asked" /\ list' = Read(list, m) /\ rows' = Read(rows, m)
       \/ patch[m] = "listed" /\ rows' = Read(rows, m) /\ UNCHANGED list
    /\ UNCHANGED marked
    /\ Ask(g)
    /\ UNCHANGED <<inserts, cache, settled>>

\* The API restarts, with the list that the rows give; what was under way is lost.
Restart ==
    /\ "restart" \in Faults
    /\ list' = rows /\ inserts' = {}
    /\ get' = [g \in Gets |-> NoGet] /\ current' = "none"
    /\ patch' = [m \in Marks |-> "none"]
    /\ UNCHANGED <<rows, cache, marked, settled>>

NotesNext ==
    \/ \E n \in Notes : AddNotification(n) \/ Insert(n)
    \/ \E g \in Gets :
         \/ Refetch(g) \/ ReadRows(g) \/ KeepRows(g) \/ GetAnswered(g) \/ GetLost(g) \/ GetRefused(g)
         \/ \E m \in Marks : MarkAnswered(m, g) \/ MarkLost(m, g)
    \/ \E m \in Marks : Mark(m) \/ MarkList(m) \/ MarkRows(m)
    \/ Restart

NotesSpec == NotesInit /\ [][NotesNext]_noteVars

-----------------------------------------------------------------------------

\* A notification the user has opened is not shown as unread again once the change
\* was answered and the list asked for after it has arrived, whichever requests
\* were under way meanwhile, as long as the API answers from the database; and the
\* badge counts what is shown as unread.
ReadStaysRead ==
    /\ cache.source = "database" => \A n \in settled : cache.notes[n] # "unread"
    /\ cache.badge = Unread(cache.notes)
=============================================================================
