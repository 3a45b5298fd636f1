-------------------------------- MODULE Register --------------------------------
(***************************************************************************)
(* A till's commands (possim) over its queue file, against the API behind  *)
(* RequireStoreAPIKey and the rate limiter.  A command is a process of its *)
(* own that may be killed at any step; every read and write of the file    *)
(* and every request to the API is a step.  The store API posts by         *)
(* transaction id, so what a request repeats is not posted twice: that is  *)
(* the Ledger module's business, and here it is the set of posted ids.     *)
(***************************************************************************)
EXTENDS Naturals, Sequences, FiniteSets, SequencesExt

CONSTANTS
  Sale, Refund,  \* operations, by transaction id
  Original,      \* Refund -> Sale
  Command,       \* commands that may run at once
  None,
  Attempts,      \* client.attempts
  Limit,         \* requests of one key in a window
  MaxFaults      \* bound: lost requests and answers, failed writes, kills, repeats, revocations

Op == Sale \cup Refund

ASSUME RegisterAssumption ==
  /\ Original \in [Refund -> Sale] /\ Sale \cap Refund = {}
  /\ None \notin Op /\ Attempts \in Nat \ {0} /\ Limit \in Nat /\ MaxFaults \in Nat

VARIABLES
  file,      \* the queue: one operation a line
  cmd,       \* per command: phase, its operation, the lines loaded, the attempt
  made,      \* operations the cashier has made, in that order (history)
  posted,    \* operations the API has recorded
  rejected,  \* operations the API refused for good
  count,     \* ratelimit:<profile>:principal:<key>
  revoked,   \* the store API key's revoked_at is set
  faults

vars == <<file, cmd, made, posted, rejected, count, revoked, faults>>
api == <<posted, count, revoked>>

NoCommand == [phase |-> "idle", op |-> None, lines |-> <<>>, attempt |-> 1]
Fault == faults < MaxFaults /\ faults' = faults + 1

Init ==
  /\ file = <<>> /\ made = <<>> /\ posted = {} /\ rejected = {}
  /\ cmd = [c \in Command |-> NoCommand]
  /\ count = 0 /\ revoked = FALSE /\ faults = 0

At(c, phase) == cmd[c].phase = phase
Goes(c, phase) == cmd' = [cmd EXCEPT ![c].phase = phase, ![c].attempt = 1]

Makes(op) == made' = IF op \in {None} \cup ToSet(made) THEN made ELSE Append(made, op)

\* The command ends, and its operation with it: delivered, queued or refused.
Ends(c) ==
  /\ cmd' = [cmd EXCEPT ![c] = NoCommand]
  /\ Makes(cmd[c].op)

-------------------------------------------------------------------------------
\* runSale and runRefund: straight to the queue, or drainFirst.  The cashier refunds
\* what has been sold, and may repeat a command (-id); op is None for runReplay.
Begin(c, op) ==
  /\ At(c, "idle")
  /\ \A d \in Command : op = None \/ cmd[d].op # op
  /\ op \in Refund => Original[op] \in ToSet(made)
  /\ IF op \in ToSet(made) THEN Fault ELSE UNCHANGED faults
  /\ \E phase \in IF op = None THEN {"load"} ELSE {"load", "enqueue"} :
       cmd' = [cmd EXCEPT ![c] = [NoCommand EXCEPT !.phase = phase, !.op = op]]
  /\ UNCHANGED <<file, made, rejected, api>>

\* Where a command goes on with a queue that is empty, and with one that is not.
Online(c) == IF cmd[c].op = None THEN "end" ELSE "live"
\* Mutant: the new operation goes out although the queue could not be drained.
LiveAnyway(c) == "live"
Offline(c) == IF cmd[c].op = None THEN "end" ELSE "enqueue"

\* drainFirst and runReplay look at the queue, and replay loads it once more.
Look(c) ==
  /\ At(c, "load")
  /\ Goes(c, IF file = <<>> THEN Online(c) ELSE "load lines")
  /\ UNCHANGED <<file, made, rejected, api, faults>>

Load(c) ==
  /\ At(c, "load lines")
  /\ cmd' = [cmd EXCEPT ![c].lines = file, ![c].phase = "replay", ![c].attempt = 1]
  /\ UNCHANGED <<file, made, rejected, api, faults>>

-------------------------------------------------------------------------------
\* One request.  The key is checked first, then the limit, then the handler runs.

Sends(c) == IF At(c, "replay") THEN Head(cmd[c].lines) ELSE cmd[c].op
Sending(c) == At(c, "live") \/ (At(c, "replay") /\ cmd[c].lines # <<>>)

\* Answered for good: the next line, or the end of the live operation.
Delivered(c) ==
  IF At(c, "live") THEN Ends(c)
  ELSE /\ cmd' = [cmd EXCEPT ![c].lines = Tail(@), ![c].attempt = 1]
       /\ UNCHANGED made

\* Mutant: replay goes on with the line after the one that failed.
SkipFailed(c) == Tail(cmd[c].lines)
\* ops[i:]
Undelivered(c) == cmd[c].lines

\* do: the same request again, and after the last attempt save or enqueue.
Transient(c) ==
  /\ UNCHANGED <<made, rejected>>
  /\ IF cmd[c].attempt < Attempts
     THEN cmd' = [cmd EXCEPT ![c].attempt = @ + 1]
     ELSE IF At(c, "live") THEN Goes(c, Offline(c))
     ELSE cmd' = [cmd EXCEPT ![c].phase = "save rest", ![c].lines = Undelivered(c), ![c].attempt = 1]

\* Any other 4xx.
Refused(c) == rejected' = rejected \cup {Sends(c)} /\ Delivered(c)

\* No connection, a 5xx, or a limiter whose Redis does not answer (503).
Unreachable(c) ==
  /\ Sending(c) /\ Fault /\ Transient(c)
  /\ UNCHANGED <<file, api>>

\* RequireStoreAPIKey: 401
WithoutKey(c) ==
  /\ Sending(c) /\ revoked
  /\ Refused(c)
  /\ UNCHANGED <<file, api, faults>>

\* checkAndIncrScript counts the request it refuses, too: 429
Limited(c) ==
  /\ Sending(c) /\ ~revoked /\ count >= Limit
  /\ Transient(c)
  /\ UNCHANGED <<file, api, faults>>

Handled(c) ==
  /\ Sending(c) /\ ~revoked /\ count < Limit
  /\ count' = count + 1
  /\ IF Sends(c) \in Refund /\ Original[Sends(c)] \notin posted
     THEN Refused(c) /\ UNCHANGED <<posted, faults>>   \* 404
     ELSE /\ posted' = posted \cup {Sends(c)}
          /\ \/ Delivered(c) /\ UNCHANGED <<rejected, faults>>
             \/ Fault /\ Transient(c)                  \* the answer is lost
  /\ UNCHANGED <<file, revoked>>

-------------------------------------------------------------------------------
\* The queue file

\* save: a new file is renamed over the queue, or the queue is removed.
SaveRest(c) ==
  /\ At(c, "save rest")
  /\ file' = cmd[c].lines
  /\ Goes(c, Offline(c))
  /\ UNCHANGED <<made, rejected, api, faults>>

SaveNothing(c) ==
  /\ At(c, "replay") /\ cmd[c].lines = <<>>
  /\ file' = <<>>
  /\ Goes(c, Online(c))
  /\ UNCHANGED <<made, rejected, api, faults>>

\* Whatever was delivered is still in the file, and will be sent again.
SaveFails(c) ==
  /\ At(c, "save rest") \/ (At(c, "replay") /\ cmd[c].lines = <<>>)
  /\ Fault /\ Goes(c, Offline(c))
  /\ UNCHANGED <<file, made, rejected, api>>

Enqueue(c) ==
  /\ At(c, "enqueue")
  /\ file' = Append(file, cmd[c].op)
  /\ Ends(c)
  /\ UNCHANGED <<rejected, api, faults>>

EndReplay(c) ==
  /\ At(c, "end") /\ Ends(c)
  /\ UNCHANGED <<file, rejected, api, faults>>

\* The command is killed, or its append fails: the cashier is not told that the
\* operation was taken.  It has been made if the API has recorded it.
Killed(c) ==
  /\ ~At(c, "idle") /\ Fault
  /\ cmd' = [cmd EXCEPT ![c] = NoCommand]
  /\ Makes(IF cmd[c].op \in posted THEN cmd[c].op ELSE None)
  /\ UNCHANGED <<file, rejected, api>>

-------------------------------------------------------------------------------
\* The window ends; an administrator revokes the key.
NextWindow ==
  /\ count > 0 /\ count' = 0
  /\ UNCHANGED <<file, cmd, made, posted, rejected, revoked, faults>>

RevokeKey ==
  /\ ~revoked /\ Fault /\ revoked' = TRUE
  /\ UNCHANGED <<file, cmd, made, posted, rejected, count>>

Next ==
  \/ \E c \in Command :
       \/ \E op \in Op \cup {None} : Begin(c, op)
       \/ Look(c) \/ Load(c)
       \/ Unreachable(c) \/ WithoutKey(c) \/ Limited(c) \/ Handled(c)
       \/ SaveRest(c) \/ SaveNothing(c) \/ SaveFails(c) \/ Enqueue(c) \/ EndReplay(c)
       \/ Killed(c)
  \/ NextWindow \/ RevokeKey

Spec == Init /\ [][Next]_vars

-------------------------------------------------------------------------------
\* The type invariant.
TypeOK ==
  /\ file \in Seq(Op) /\ made \in Seq(Op)
  /\ \A c \in Command :
       /\ cmd[c].phase \in {"idle", "load", "load lines", "replay", "live", "save rest",
                            "enqueue", "end"}
       /\ cmd[c].op \in Op \cup {None}
       /\ cmd[c].op = None => cmd[c].phase \notin {"live", "enqueue"}
       /\ cmd[c].lines \in Seq(Op) /\ cmd[c].attempt \in 1..Attempts
  /\ posted \subseteq Op /\ rejected \subseteq Op
  /\ count \in 0..Limit /\ revoked \in BOOLEAN /\ faults \in 0..MaxFaults

\* queue.go: a sale or refund "must reach the loyalty API eventually", and a crash
\* in the middle of a replay never loses one.  Once its command has ended, an
\* operation is recorded, refused by the API, or still in the file.
NothingIsLost ==
  \A op \in ToSet(made) : op \in posted \cup rejected \cup ToSet(file)

\* replay's promise that "later sales never overtake an earlier one": what the
\* cashier made later is recorded later, through lost answers, replays that break
\* off, kills and operations that go out live.
NothingOvertakes ==
  \A i, j \in 1..Len(made) :
    i < j /\ made[j] \in posted => made[i] \in posted \cup rejected

\* So with a valid key no refund is refused for a sale that is still in the queue.
RefundsFindTheirSale ==
  ~revoked => rejected = {}
===============================================================================
