----------------------------- MODULE Notification -----------------------------
(****************************************************************************)
(* One user's notifications (features/notification): their rows, the unread *)
(* counter that the Redis decorator keeps by deltas beside them, and the    *)
(* job that sends each of them.                                             *)
(*                                                                          *)
(* The counter is adjusted in a call of its own, before the transaction of  *)
(* a Create commits and after the statement of a MarkRead, so it may drift; *)
(* it has a time to live, and a reader that finds none counts the rows      *)
(* again.                                                                   *)
(****************************************************************************)
EXTENDS Integers, FiniteSets

CONSTANTS
  Notes,        \* notifications that may be created
  NoteRequests, \* requests under way at once
  UnreadTtl,    \* unreadTTL, in ticks
  MaxAttempts,  \* SendArgs.InsertOpts
  MaxCount      \* bound on the value of the counter

ASSUME NotificationAssumption ==
  /\ Notes # {} /\ IsFiniteSet(Notes)
  /\ UnreadTtl \in Nat \ {0} /\ MaxAttempts \in Nat \ {0} /\ MaxCount \in Nat

VARIABLES
  note,     \* each row: absent, unread or read
  counter,  \* the key: its value and the ticks it has left; {} when missing
  noteReq,  \* what each request is about to do
  sendJob,  \* the job of each notification, and the attempts it has had
  calm      \* history: ticks since a request last held or did what moves the count

noteVars == <<note, counter, noteReq, sendJob, calm>>

NoteIdle == [step |-> "idle", note |-> CHOOSE n \in Notes : TRUE, count |-> 0]
NoJob == [state |-> "none", attempt |-> 0]

CountUnread == Cardinality({n \in Notes : note[n] = "unread"})

NoteAt(r, step) == noteReq[r].step = step
NoteDone(r) == noteReq' = [noteReq EXCEPT ![r] = NoteIdle]
NoteGo(r, step, n, count) == noteReq' = [noteReq EXCEPT ![r] = [step |-> step, note |-> n, count |-> count]]

(****************************************************************************)
(* The counter.                                                             *)
(****************************************************************************)
Floored(v) == IF v < 0 THEN 0 ELSE v

Adjusted_Creates(delta) ==
  IF counter = {} THEN {[value |-> Floored(delta), left |-> 2 * UnreadTtl + 2]}
  ELSE {[c EXCEPT !.value = Floored(@ + delta)] : c \in counter}

\* adjustScript: nothing when the key is missing, its time to live kept.
Adjusted(delta) == {[c EXCEPT !.value = Floored(@ + delta)] : c \in counter}

\* Redis may fail, or lose the key.
Adjust(delta) == counter' = Adjusted(delta) \/ UNCHANGED counter

StoreCount(n) == counter' = {[value |-> n, left |-> UnreadTtl]} \/ UNCHANGED counter

(****************************************************************************)
(* The service and its decorated repository.                                *)
(****************************************************************************)
\* Create: the insert, and the adjustment that does not wait for the commit.
CreateNote(r, n) ==
  /\ NoteAt(r, "idle") /\ note[n] = "absent"
  /\ \A c \in counter : c.value < MaxCount
  /\ \A q \in NoteRequests : ~(NoteAt(q, "created") /\ noteReq[q].note = n)
  /\ NoteGo(r, "created", n, 0)
  /\ Adjust(1)
  /\ calm' = 0
  /\ UNCHANGED <<note, sendJob>>

CreateNoteCommit_NoJob(r) ==
  LET n == noteReq[r].note IN
  /\ NoteAt(r, "created")
  /\ note' = [note EXCEPT ![n] = "unread"]
  /\ NoteDone(r) /\ calm' = 0
  /\ UNCHANGED <<counter, sendJob>>

\* EnqueueSend goes with the row.
CreateNoteCommit(r) ==
  LET n == noteReq[r].note IN
  /\ NoteAt(r, "created")
  /\ note' = [note EXCEPT ![n] = "unread"]
  /\ sendJob' = [sendJob EXCEPT ![n] = [state |-> "available", attempt |-> 0]]
  /\ NoteDone(r) /\ calm' = 0
  /\ UNCHANGED counter

\* The transaction rolls back, the caller dies: what Redis was told stays.
NoteFails(r) ==
  /\ ~NoteAt(r, "idle")
  /\ NoteDone(r) /\ calm' = 0
  /\ UNCHANGED <<note, counter, sendJob>>

\* MarkRead counts down for a notification that was read before, too.
MarkRead(r, n) ==
  /\ NoteAt(r, "idle") /\ note[n] # "absent"
  /\ note' = [note EXCEPT ![n] = "read"]
  /\ NoteGo(r, "marked", n, 0) /\ calm' = 0
  /\ UNCHANGED <<counter, sendJob>>

MarkReadAdjust(r) ==
  /\ NoteAt(r, "marked")
  /\ Adjust(-1)
  /\ NoteDone(r) /\ calm' = 0
  /\ UNCHANGED <<note, sendJob>>

MarkAllRead(r) ==
  /\ NoteAt(r, "idle")
  /\ note' = [n \in Notes |-> IF note[n] = "unread" THEN "read" ELSE note[n]]
  /\ noteReq' = [noteReq EXCEPT ![r].step = "cleared"] /\ calm' = 0
  /\ UNCHANGED <<counter, sendJob>>

MarkAllReadStore(r) ==
  /\ NoteAt(r, "cleared")
  /\ StoreCount(0)
  /\ NoteDone(r) /\ calm' = 0
  /\ UNCHANGED <<note, sendJob>>

\* CountUnread without a key, or with Redis failing: count, then store.
CountRows(r) ==
  /\ NoteAt(r, "idle")
  /\ noteReq' = [noteReq EXCEPT ![r].step = "counted", ![r].count = CountUnread]
  /\ UNCHANGED <<note, counter, sendJob, calm>>

CountStore(r) ==
  /\ NoteAt(r, "counted")
  /\ StoreCount(noteReq[r].count)
  /\ NoteDone(r)
  /\ calm' = IF noteReq[r].count = CountUnread THEN calm ELSE 0
  /\ UNCHANGED <<note, sendJob>>

\* A request that may still move the counter away from the rows.
Disturbs(r) ==
  \/ noteReq[r].step \in {"created", "marked", "cleared"}
  \/ NoteAt(r, "counted") /\ noteReq[r].count # CountUnread

NoteTick ==
  /\ counter' = {[c EXCEPT !.left = @ - 1] : c \in {c \in counter : c.left > 1}}
  /\ calm' = IF \E r \in NoteRequests : Disturbs(r) THEN 0
             ELSE IF calm < UnreadTtl THEN calm + 1 ELSE calm
  /\ UNCHANGED <<note, noteReq, sendJob>>

LoseKey ==
  /\ counter # {} /\ counter' = {}
  /\ UNCHANGED <<note, noteReq, sendJob, calm>>

(****************************************************************************)
(* Sending (adapter/jobs), on the queue.                                    *)
(****************************************************************************)

FetchSend(n) ==
  /\ sendJob[n].state = "available"
  /\ sendJob' = [sendJob EXCEPT ![n] = [state |-> "running", attempt |-> @.attempt + 1]]
  /\ UNCHANGED <<note, counter, noteReq, calm>>

\* Send reads the row and hands it to the channel; an error is retried.
Send(n, state) ==
  /\ sendJob[n].state = "running"
  /\ \/ state = "completed" /\ note[n] # "absent"
     \/ state = "available" /\ sendJob[n].attempt < MaxAttempts
     \/ state = "discarded" /\ sendJob[n].attempt = MaxAttempts
  /\ sendJob' = [sendJob EXCEPT ![n].state = state]
  /\ UNCHANGED <<note, counter, noteReq, calm>>

NoteInit ==
  /\ note = [n \in Notes |-> "absent"]
  /\ counter = {} /\ calm = 0
  /\ noteReq = [r \in NoteRequests |-> NoteIdle]
  /\ sendJob = [n \in Notes |-> NoJob]

Work(n) == FetchSend(n) \/ \E state \in {"completed", "available", "discarded"} : Send(n, state)

NoteNext ==
  \/ \E r \in NoteRequests :
       \/ \E n \in Notes : CreateNote(r, n) \/ MarkRead(r, n)
       \/ CreateNoteCommit(r) \/ NoteFails(r)
       \/ MarkReadAdjust(r) \/ MarkAllRead(r) \/ MarkAllReadStore(r)
       \/ CountRows(r) \/ CountStore(r)
  \/ NoteTick \/ LoseKey
  \/ \E n \in Notes : Work(n)

\* The worker takes up the jobs that wait and ends those it runs (River's default
\* fetch loop; MaxAttempts bounds the retries).
NoteFairness == \A n \in Notes : WF_noteVars(Work(n))

NoteSpec == NoteInit /\ [][NoteNext]_noteVars

-----------------------------------------------------------------------------
NoteTypeOK ==
  /\ note \in [Notes -> {"absent", "unread", "read"}]
  /\ counter \in SUBSET [value : Int, left : Nat \ {0}]
  /\ noteReq \in [NoteRequests -> [step : {"idle", "created", "marked", "cleared", "counted"}, note : Notes, count : Nat]]
  /\ sendJob \in [Notes -> [state : {"none", "available", "running", "completed", "discarded"}, attempt : 0..MaxAttempts]]
  /\ calm \in 0..UnreadTtl

\* The counter heals: once nothing that moves it has been under way for one time to
\* live, it says what the rows say or it is gone, whatever adjustments were lost,
\* repeated or rolled back (adjustScript, which creates no key and keeps the time to
\* live).  It is never below nothing.
CounterHeals ==
  \A c \in counter :
    /\ c.value >= 0
    /\ c.value # CountUnread => c.left + calm <= UnreadTtl

\* Every notification that was committed is sent or given up in the end: its job is
\* committed with it, and each attempt may fail and be tried again (Service.Create,
\* jobqueue.Insert, SendWorker.Work, SendArgs.InsertOpts).
EveryNoteSent ==
  \A n \in Notes :
    note[n] # "absent" ~> sendJob[n].state \in {"completed", "discarded"}
===============================================================================
