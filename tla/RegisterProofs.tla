---------------------------- MODULE RegisterProofs ----------------------------
(***************************************************************************)
(* Proofs about a till with one command at a time (OneTill): what it made  *)
(* is not lost, is recorded in its order, and no refund is refused for a   *)
(* sale that still waits, for any number of operations and faults, any     *)
(* length of the queue, any attempts and any limit.                        *)
(***************************************************************************)
EXTENDS Register, TLAPS

\* possim is started by a cashier, who waits for it.  Two commands at once lose
\* operations (the finding at queue.go:154), so this is needed.
OneTill == \A c, d \in Command : c = d

Phase == {"idle", "load", "load lines", "replay", "live", "save rest", "enqueue", "end"}
CommandState == [phase : Phase, op : Op \cup {None}, lines : Seq(Op), attempt : 1..Attempts]

\* The API will not change its mind about these.
Done == posted \cup rejected

Typed ==
  /\ file \in Seq(Op) /\ made \in Seq(Op)
  /\ cmd \in [Command -> CommandState]
  /\ posted \subseteq Op /\ rejected \subseteq Op
  /\ count \in 0..Limit /\ revoked \in BOOLEAN /\ faults \in 0..MaxFaults

\* Which commands have an operation of their own.
PhaseFits(c) ==
  /\ At(c, "live") \/ At(c, "enqueue") => cmd[c].op # None
  /\ At(c, "idle") \/ At(c, "end") => cmd[c].op = None

\* An operation goes out live only past an empty queue ...
LiveIsAlone(c) == At(c, "live") => file = <<>>

\* ... and what a replay has left is the end of the file, what it has passed is done.
LeftOf(lines, n) ==
  /\ Len(lines) = Len(file) - n
  /\ \A i \in 1..Len(lines) : lines[i] = file[n + i]
  /\ \A i \in 1..n : file[i] \in Done

ReplayIsSuffix(c) ==
  At(c, "replay") \/ At(c, "save rest") => \E n \in 0..Len(file) : LeftOf(cmd[c].lines, n)

FileIsMade == \A q \in 1..Len(file) : \E i \in 1..Len(made) : made[i] = file[q]

MadeIsKept ==
  \A i \in 1..Len(made) : made[i] \in Done \/ \E q \in 1..Len(file) : file[q] = made[i]

\* Whatever was made earlier and is not done is earlier in the file, too.
FileInOrder ==
  \A i, j \in 1..Len(made) : \A q \in 1..Len(file) :
    i < j /\ file[q] = made[j] /\ made[i] \notin Done
      => \E p \in 1..Len(file) : p < q /\ file[p] = made[i]

IsMade(op) == \E i \in 1..Len(made) : made[i] = op
AllDone == \A i \in 1..Len(made) : made[i] \in Done

\* A live operation that is recorded before its command ends has nothing to overtake.
PostedIsMade(c) ==
  /\ \A op \in posted : IsMade(op) \/ op = cmd[c].op
  /\ cmd[c].op \in posted => IsMade(cmd[c].op) \/ AllDone

\* The cashier refunds what was sold before.
RefundsFollow ==
  \A j \in 1..Len(made) : made[j] \in Refund =>
    \E i \in 1..Len(made) : i < j /\ made[i] = Original[made[j]]

SaleWasMade(c) == cmd[c].op \in Refund => IsMade(Original[cmd[c].op])

Tables ==
  /\ FileIsMade /\ MadeIsKept /\ FileInOrder /\ RefundsFollow
  /\ NothingOvertakes /\ RefundsFindTheirSale

Till(c) ==
  /\ PhaseFits(c) /\ LiveIsAlone(c) /\ ReplayIsSuffix(c)
  /\ PostedIsMade(c) /\ SaleWasMade(c)

IInv == Typed /\ Tables /\ \A c \in Command : Till(c)

-------------------------------------------------------------------------------
\* Sequences and the two ways in which a command ends.

\* ToSet in the form the proofs use.
LEMMA MembersAre ==
  ASSUME NEW s \in Seq(Op), NEW x
  PROVE  x \in ToSet(s) <=> \E i \in 1..Len(s) : s[i] = x
BY DEF ToSet

\* What Append leaves, and what it adds.
LEMMA Appended ==
  ASSUME NEW s \in Seq(Op), NEW x \in Op, NEW t, t = Append(s, x)
  PROVE  /\ t \in Seq(Op) /\ Len(t) = Len(s) + 1 /\ t[Len(t)] = x
         /\ \A i \in 1..Len(s) : t[i] = s[i]
OBVIOUS

\* An operation is made once.
LEMMA MakesOnce ==
  ASSUME Typed, NEW op \in Op \cup {None}, Makes(op)
  PROVE  \/ made' = made /\ (op = None \/ IsMade(op))
         \/ op \in Op /\ ~IsMade(op) /\ made' = Append(made, op)
<1>1. made \in Seq(Op)
  BY DEF Typed
<1>2. op \in ToSet(made) <=> IsMade(op)
  BY <1>1, MembersAre DEF IsMade
<1> QED
  BY <1>2 DEF Makes

\* Changing the phase changes nothing else of a command.
LEMMA GoesTo ==
  ASSUME RegisterAssumption, cmd \in [Command -> CommandState], NEW c \in Command,
         NEW phase \in Phase, Goes(c, phase)
  PROVE  /\ cmd' \in [Command -> CommandState]
         /\ cmd'[c].phase = phase /\ cmd'[c].op = cmd[c].op /\ cmd'[c].lines = cmd[c].lines
<1> DEFINE after == [cmd[c] EXCEPT !.phase = phase, !.attempt = 1]
<1>1. cmd[c] \in CommandState
  OBVIOUS
<1>2. 1 \in 1..Attempts
  BY DEF RegisterAssumption
<1>3. after \in CommandState
  BY <1>1, <1>2 DEF CommandState
<1>4. after.phase = phase /\ after.op = cmd[c].op /\ after.lines = cmd[c].lines
  BY <1>1 DEF CommandState
<1>5. cmd' = [cmd EXCEPT ![c] = after]
  BY DEF Goes
<1>6. cmd' \in [Command -> CommandState] /\ cmd'[c] = after
  <2> HIDE DEF after
  <2> QED
    BY <1>3, <1>5
<1> QED
  BY <1>4, <1>6

\* A command that has ended is as before it began.
LEMMA NoCommandIs ==
  ASSUME RegisterAssumption, cmd \in [Command -> CommandState], NEW c \in Command,
         cmd' = [cmd EXCEPT ![c] = NoCommand]
  PROVE  /\ cmd' \in [Command -> CommandState]
         /\ cmd'[c].phase = "idle" /\ cmd'[c].op = None
<1>1. NoCommand \in CommandState
  <2>1. 1 \in 1..Attempts /\ <<>> \in Seq(Op) /\ "idle" \in Phase
    BY DEF RegisterAssumption, Phase
  <2> QED
    BY <2>1 DEF NoCommand, CommandState
<1>2. cmd'[c] = NoCommand
  OBVIOUS
<1>3. NoCommand.phase = "idle" /\ NoCommand.op = None
  BY DEF NoCommand
<1>4. cmd' \in [Command -> CommandState]
  BY <1>1
<1> QED
  BY <1>2, <1>3, <1>4

-------------------------------------------------------------------------------
\* What keeps the tables.

\* Nothing becomes undone.
LEMMA DoneGrows ==
  ASSUME Tables, file' = file, made' = made, Done \subseteq Done'
  PROVE  FileIsMade' /\ MadeIsKept' /\ FileInOrder' /\ RefundsFollow'
<1>1. FileIsMade'
  BY DEF Tables, FileIsMade
<1>2. MadeIsKept'
  BY DEF Tables, MadeIsKept
<1>3. FileInOrder'
  BY DEF Tables, FileInOrder
<1>4. RefundsFollow'
  BY DEF Tables, RefundsFollow
<1> QED
  BY <1>1, <1>2, <1>3, <1>4

\* When all that was made is done there is no order to keep.
LEMMA AllDoneInOrder ==
  ASSUME AllDone'
  PROVE  MadeIsKept' /\ FileInOrder' /\ NothingOvertakes'
BY DEF AllDone, MadeIsKept, FileInOrder, NothingOvertakes, Done

\* The file is empty: all that was made is done.
LEMMA EmptyIsDone ==
  ASSUME Typed, MadeIsKept, file = <<>>
  PROVE  AllDone
BY DEF MadeIsKept, AllDone

\* A new refund comes after its sale.
LEMMA RefundsStayBehind ==
  ASSUME RegisterAssumption, Typed, RefundsFollow, NEW op \in Op,
         op \in Refund => IsMade(Original[op]), made' = Append(made, op)
  PROVE  RefundsFollow'
<1>1. made \in Seq(Op)
  BY DEF Typed
<1>2. made' \in Seq(Op) /\ Len(made') = Len(made) + 1 /\ made'[Len(made')] = op
      /\ \A i \in 1..Len(made) : made'[i] = made[i]
  BY <1>1, Appended
<1>3. Len(made) \in Nat
  BY <1>1
<1>4. SUFFICES ASSUME NEW j \in 1..Len(made'), made'[j] \in Refund
               PROVE  \E i \in 1..Len(made') : i < j /\ made'[i] = Original[made'[j]]
  BY DEF RefundsFollow
<1>5. CASE j \in 1..Len(made)
  <2>1. PICK i \in 1..Len(made) : i < j /\ made[i] = Original[made[j]]
    BY <1>2, <1>4, <1>5 DEF RefundsFollow
  <2> QED
    BY <1>2, <1>3, <1>5, <2>1
<1>6. CASE j = Len(made')
  <2>1. PICK i \in 1..Len(made) : made[i] = Original[op]
    BY <1>2, <1>4, <1>6 DEF IsMade
  <2> QED
    BY <1>2, <1>3, <1>6, <2>1
<1> QED
  BY <1>2, <1>3, <1>5, <1>6
-------------------------------------------------------------------------------
\* What is sent has nothing to wait for.

\* Everything made before x is done, and so is the sale that x refunds.
Unhindered(x) ==
  /\ \A i, j \in 1..Len(made) : i < j /\ made[j] = x => made[i] \in Done
  /\ x \in Refund => Original[x] \in Done

\* The line a replay has come to is the first that is not done.
LEMMA NextLineIsUnhindered ==
  ASSUME Typed, Tables, NEW n \in Nat, n < Len(file), \A i \in 1..n : file[i] \in Done
  PROVE  Unhindered(file[n + 1]) /\ IsMade(file[n + 1])
<1>1. file \in Seq(Op) /\ made \in Seq(Op) /\ n + 1 \in 1..Len(file)
  BY DEF Typed
<1>2. \A p \in 1..Len(file) : p < n + 1 => p \in 1..n
  BY <1>1
<1>3. \A i, j \in 1..Len(made) : i < j /\ made[j] = file[n + 1] => made[i] \in Done
  <2>1. SUFFICES ASSUME NEW i \in 1..Len(made), NEW j \in 1..Len(made),
                        i < j, made[j] = file[n + 1], made[i] \notin Done
                 PROVE  FALSE
    OBVIOUS
  <2>2. PICK p \in 1..Len(file) : p < n + 1 /\ file[p] = made[i]
    BY <1>1, <2>1 DEF Tables, FileInOrder
  <2> QED
    BY <1>2, <2>1, <2>2
<1>4. PICK j \in 1..Len(made) : made[j] = file[n + 1]
  BY <1>1 DEF Tables, FileIsMade
<1>5. ASSUME file[n + 1] \in Refund
      PROVE  Original[file[n + 1]] \in Done
  <2>1. PICK i \in 1..Len(made) : i < j /\ made[i] = Original[made[j]]
    BY <1>4, <1>5 DEF Tables, RefundsFollow
  <2> QED
    BY <1>3, <1>4, <2>1
<1> QED
  BY <1>3, <1>4, <1>5 DEF Unhindered, IsMade

\* What a command sends has nothing to wait for, be it a line or its own operation.
LEMMA SendsUnhindered ==
  ASSUME IInv, NEW c \in Command, Sending(c)
  PROVE  /\ Sends(c) \in Op /\ Unhindered(Sends(c))
         /\ At(c, "replay") => IsMade(Sends(c))
         /\ At(c, "live") => file = <<>> /\ AllDone /\ Sends(c) = cmd[c].op
<1>1. Typed /\ Tables /\ Till(c)
  BY DEF IInv
<1>2. cmd[c] \in CommandState
  BY <1>1 DEF Typed
<1>3. CASE At(c, "live")
  <2>1. ~At(c, "replay") /\ Sends(c) = cmd[c].op
    BY <1>3 DEF At, Sends
  <2>2. cmd[c].op \in Op
    BY <1>1, <1>2, <1>3 DEF Till, PhaseFits, CommandState
  <2>3. file = <<>> /\ AllDone
    BY <1>1, <1>3, EmptyIsDone DEF Till, LiveIsAlone, Tables
  <2>4. cmd[c].op \in Refund => Original[cmd[c].op] \in Done
    BY <1>1, <2>3 DEF Till, SaleWasMade, IsMade, AllDone
  <2>5. Unhindered(cmd[c].op)
    BY <2>3, <2>4 DEF Unhindered, AllDone
  <2> QED
    BY <2>1, <2>2, <2>3, <2>5
<1>4. CASE At(c, "replay")
  <2>1. cmd[c].lines # <<>> /\ ~At(c, "live") /\ Sends(c) = Head(cmd[c].lines)
    BY <1>4 DEF At, Sends, Sending
  <2>2. cmd[c].lines \in Seq(Op) /\ file \in Seq(Op)
    BY <1>1, <1>2 DEF CommandState, Typed
  <2>3. PICK n \in 0..Len(file) : LeftOf(cmd[c].lines, n)
    BY <1>1, <1>4 DEF Till, ReplayIsSuffix
  <2>4. Len(cmd[c].lines) > 0 /\ Head(cmd[c].lines) = cmd[c].lines[1]
        /\ Len(cmd[c].lines) \in Nat /\ Head(cmd[c].lines) \in Op
    BY <2>1, <2>2
  <2>5. n < Len(file) /\ Head(cmd[c].lines) = file[n + 1] /\ \A i \in 1..n : file[i] \in Done
    BY <2>2, <2>3, <2>4 DEF LeftOf
  <2> QED
    BY <1>1, <2>1, <2>4, <2>5, NextLineIsUnhindered
<1> QED
  BY <1>3, <1>4 DEF Sending

\* Recording it keeps the order.
LEMMA RecordsInOrder ==
  ASSUME Tables, NEW x, Unhindered(x), made' = made,
         posted' = posted \/ posted' = posted \cup {x}, rejected \subseteq rejected'
  PROVE  NothingOvertakes'
<1>1. SUFFICES ASSUME NEW i \in 1..Len(made), NEW j \in 1..Len(made),
                      i < j, made[j] \in posted'
               PROVE  made[i] \in Done'
  BY DEF NothingOvertakes, Done
<1>2. Done \subseteq Done'
  BY DEF Done
<1>3. CASE made[j] \in posted
  BY <1>1, <1>2, <1>3 DEF Tables, NothingOvertakes, Done
<1>4. CASE made[j] = x
  BY <1>1, <1>2, <1>4 DEF Unhindered
<1> QED
  BY <1>1, <1>3, <1>4

\* A replay that goes on with the next line.
LEMMA NextLine ==
  ASSUME Typed, NEW c \in Command, cmd[c].lines \in Seq(Op), cmd[c].lines # <<>>,
         file' = file, Done \subseteq Done',
         NEW n \in 0..Len(file), LeftOf(cmd[c].lines, n),
         cmd'[c].lines = Tail(cmd[c].lines), Head(cmd[c].lines) \in Done'
  PROVE  n + 1 \in 0..Len(file) /\ LeftOf(cmd[c].lines, n + 1)'
<1> DEFINE l == cmd[c].lines
           r == Tail(l)
<1>1. l \in Seq(Op) /\ l # <<>> /\ file \in Seq(Op)
  BY DEF Typed
<1>2. Len(l) \in Nat /\ Len(l) > 0 /\ Len(file) \in Nat /\ n \in Nat /\ Len(r) = Len(l) - 1
  BY <1>1
<1>9. Head(l) = l[1] /\ \A i \in 1..Len(r) : r[i] = l[i + 1]
  BY <1>1
<1>3. \A i \in 1..Len(l) : l[i] = file[n + i]
  BY DEF LeftOf
<1>10. Len(l) = Len(file) - n
  BY DEF LeftOf
<1>8. \A k \in 1..n : file[k] \in Done
  BY DEF LeftOf
<1>4. cmd'[c].lines = r /\ Head(l) \in Done'
  OBVIOUS
<1> HIDE DEF l, r
<1>5. n + 1 \in 0..Len(file) /\ Len(r) = Len(file) - (n + 1)
  BY <1>2, <1>10
<1>6. ASSUME NEW i \in 1..Len(r) PROVE r[i] = file[(n + 1) + i]
  <2>1. i + 1 \in 1..Len(l)
    BY <1>2
  <2>2. n + (i + 1) = (n + 1) + i
    BY <1>2
  <2>3. r[i] = l[i + 1] /\ l[i + 1] = file[n + (i + 1)]
    BY <1>3, <1>9, <2>1
  <2> QED
    BY <2>2, <2>3
<1>7. ASSUME NEW i \in 1..(n + 1) PROVE file[i] \in Done'
  <2>1. CASE i = n + 1
    <3>1. l[1] = file[n + 1]
      BY <1>2, <1>3
    <3> QED
      BY <1>4, <1>9, <2>1, <3>1
  <2>2. CASE i \in 1..n
    <3>1. file[i] \in Done
      BY <1>8, <2>2
    <3> QED
      BY <3>1
  <2> QED
    BY <2>1, <2>2
<1> QED
  BY <1>4, <1>5, <1>6, <1>7 DEF LeftOf
-------------------------------------------------------------------------------
\* What keeps the till.

\* One command is all of them.
LEMMA OneIsAll ==
  ASSUME OneTill, NEW c \in Command, Typed', Tables', Till(c)'
  PROVE  IInv'
<1>1. \A d \in Command : d = c
  BY DEF OneTill
<1>2. ASSUME NEW d \in Command PROVE Till(d)'
  <2>1. d = c
    BY <1>1
  <2> QED
    BY <2>1
<1> QED
  BY <1>2 DEF IInv

\* Nothing happened to the operations.
LEMMA TablesRest ==
  ASSUME Tables, UNCHANGED <<file, made, posted, rejected>>, revoked' = revoked \/ revoked'
  PROVE  Tables'
<1>1. Done \subseteq Done'
  BY DEF Done
<1>2. FileIsMade' /\ MadeIsKept' /\ FileInOrder' /\ RefundsFollow'
  BY <1>1, DoneGrows
<1>3. NothingOvertakes'
  BY DEF Tables, NothingOvertakes
<1>4. RefundsFindTheirSale'
  BY DEF Tables, RefundsFindTheirSale
<1> QED
  BY <1>2, <1>3, <1>4 DEF Tables

\* What a replay has left stays what it has left.
LEMMA LeftStays ==
  ASSUME NEW c \in Command, ReplayIsSuffix(c), At(c, "replay") \/ At(c, "save rest"),
         file' = file, Done \subseteq Done', cmd'[c].lines = cmd[c].lines
  PROVE  ReplayIsSuffix(c)'
<1>1. PICK n \in 0..Len(file) : LeftOf(cmd[c].lines, n)
  BY DEF ReplayIsSuffix
<1>2. LeftOf(cmd[c].lines, n)'
  BY <1>1 DEF LeftOf
<1>3. n \in 0..Len(file')
  OBVIOUS
<1> QED
  BY <1>2, <1>3 DEF ReplayIsSuffix

\* A command that goes on with the same operation.
LEMMA OperationStays ==
  ASSUME NEW c \in Command, Till(c), UNCHANGED <<made, posted, rejected>>,
         cmd'[c].op = cmd[c].op
  PROVE  PostedIsMade(c)' /\ SaleWasMade(c)'
<1>1. PostedIsMade(c)'
  BY DEF Till, PostedIsMade, IsMade, AllDone, Done
<1>2. SaleWasMade(c)'
  BY DEF Till, SaleWasMade, IsMade
<1> QED
  BY <1>1, <1>2

\* A command that has ended.
LEMMA TillEnds ==
  ASSUME RegisterAssumption, NEW c \in Command,
         cmd'[c].phase = "idle", cmd'[c].op = None, posted' \subseteq Op,
         \A op \in posted' : IsMade(op)'
  PROVE  Till(c)'
<1>1. None \notin Op
  BY DEF RegisterAssumption
<1>2. PhaseFits(c)' /\ LiveIsAlone(c)' /\ ReplayIsSuffix(c)'
  BY DEF PhaseFits, LiveIsAlone, ReplayIsSuffix, At
<1>3. PostedIsMade(c)'
  BY <1>1 DEF PostedIsMade
<1>4. SaleWasMade(c)'
  BY <1>1 DEF SaleWasMade, Op
<1> QED
  BY <1>2, <1>3, <1>4 DEF Till

-------------------------------------------------------------------------------
\* The actions that leave the operations alone.

LEMMA BeginKeeps ==
  ASSUME RegisterAssumption, OneTill, IInv, NEW c \in Command,
         NEW op \in Op \cup {None}, Begin(c, op)
  PROVE  IInv'
<1>1. Typed /\ Tables /\ Till(c)
  BY DEF IInv
<1>2. PICK phase \in {"load", "enqueue"} :
        /\ op = None => phase = "load"
        /\ cmd' = [cmd EXCEPT ![c] = [NoCommand EXCEPT !.phase = phase, !.op = op]]
  BY DEF Begin
<1> DEFINE begun == [NoCommand EXCEPT !.phase = phase, !.op = op]
<1>3. begun \in CommandState /\ begun.phase = phase /\ begun.op = op
  <2>1. 1 \in 1..Attempts /\ <<>> \in Seq(Op)
    BY DEF RegisterAssumption
  <2>2. phase \in Phase
    BY DEF Phase
  <2> QED
    BY <2>1, <2>2 DEF NoCommand, CommandState
<1>4. cmd' \in [Command -> CommandState] /\ cmd'[c].phase = phase /\ cmd'[c].op = op
  <2>1. cmd \in [Command -> CommandState] /\ cmd' = [cmd EXCEPT ![c] = begun]
    BY <1>1, <1>2 DEF Typed
  <2> HIDE DEF begun
  <2> QED
    BY <1>3, <2>1
<1>5. UNCHANGED <<file, made, posted, rejected, count, revoked>> /\ faults' \in 0..MaxFaults
  <2>1. UNCHANGED <<file, made, posted, rejected, count, revoked>>
    BY DEF Begin, api
  <2>2. faults \in 0..MaxFaults /\ MaxFaults \in Nat
    BY <1>1 DEF Typed, RegisterAssumption
  <2>3. faults' = faults \/ (faults < MaxFaults /\ faults' = faults + 1)
    BY DEF Begin, Fault
  <2> QED
    BY <2>1, <2>2, <2>3
<1>6. Typed'
  BY <1>1, <1>4, <1>5 DEF Typed
<1>7. Tables'
  BY <1>1, <1>5, TablesRest
<1>8. \A k \in posted : IsMade(k)
  <2>1. cmd[c].op = None /\ None \notin posted
    BY <1>1 DEF Till, PhaseFits, Begin, Typed, RegisterAssumption
  <2> QED
    BY <1>1, <2>1 DEF Till, PostedIsMade
<1>9. PostedIsMade(c)'
  BY <1>4, <1>5, <1>8 DEF PostedIsMade, IsMade
<1>10. SaleWasMade(c)'
  <2>1. op \in Refund => IsMade(Original[op])
    BY <1>1, MembersAre DEF Begin, IsMade, Typed
  <2> QED
    BY <1>4, <1>5, <2>1 DEF SaleWasMade, IsMade
<1>11. PhaseFits(c)' /\ LiveIsAlone(c)' /\ ReplayIsSuffix(c)'
  BY <1>2, <1>4 DEF PhaseFits, LiveIsAlone, ReplayIsSuffix, At
<1>12. Till(c)'
  BY <1>9, <1>10, <1>11 DEF Till
<1> QED
  BY <1>6, <1>7, <1>12, OneIsAll

LEMMA LookKeeps ==
  ASSUME RegisterAssumption, OneTill, IInv, NEW c \in Command, Look(c)
  PROVE  IInv'
<1>1. Typed /\ Tables /\ Till(c)
  BY DEF IInv
<1> DEFINE phase == IF file = <<>> THEN Online(c) ELSE "load lines"
<1>2. phase \in {"end", "live", "load lines"} /\ (phase = "end" <=> file = <<>> /\ cmd[c].op = None)
      /\ (phase = "live" => file = <<>> /\ cmd[c].op # None)
  BY DEF Online
<1>3. phase \in Phase /\ Goes(c, phase) /\ UNCHANGED <<file, made, posted, rejected, count, revoked, faults>>
  BY <1>2 DEF Phase, Look, api
<1> HIDE DEF phase
<1>4. cmd' \in [Command -> CommandState] /\ cmd'[c].phase = phase /\ cmd'[c].op = cmd[c].op
  BY <1>1, <1>3, GoesTo DEF Typed
<1>5. Typed' /\ Tables' /\ PostedIsMade(c)' /\ SaleWasMade(c)'
  BY <1>1, <1>3, <1>4, TablesRest, OperationStays DEF Typed
<1>6. PhaseFits(c)' /\ LiveIsAlone(c)' /\ ReplayIsSuffix(c)'
  BY <1>2, <1>3, <1>4 DEF PhaseFits, LiveIsAlone, ReplayIsSuffix, At
<1>7. Till(c)'
  BY <1>5, <1>6 DEF Till
<1> QED
  BY <1>5, <1>7, OneIsAll

LEMMA LoadKeeps ==
  ASSUME RegisterAssumption, OneTill, IInv, NEW c \in Command, Load(c)
  PROVE  IInv'
<1>1. Typed /\ Tables /\ Till(c)
  BY DEF IInv
<1> DEFINE loaded == [cmd[c] EXCEPT !.lines = file, !.phase = "replay", !.attempt = 1]
<1>2. cmd \in [Command -> CommandState] /\ cmd[c] \in CommandState /\ file \in Seq(Op)
  BY <1>1 DEF Typed
<1>3. loaded \in CommandState /\ loaded.phase = "replay" /\ loaded.op = cmd[c].op
      /\ loaded.lines = file
  <2>1. 1 \in 1..Attempts /\ "replay" \in Phase
    BY DEF RegisterAssumption, Phase
  <2> QED
    BY <1>2, <2>1 DEF CommandState
<1>4. cmd' = [cmd EXCEPT ![c] = loaded]
      /\ UNCHANGED <<file, made, posted, rejected, count, revoked, faults>>
  BY DEF Load, api
<1> HIDE DEF loaded
<1>5. cmd' \in [Command -> CommandState] /\ cmd'[c] = loaded
  BY <1>2, <1>3, <1>4
<1>6. Typed' /\ Tables' /\ PostedIsMade(c)' /\ SaleWasMade(c)'
  BY <1>1, <1>3, <1>4, <1>5, TablesRest, OperationStays DEF Typed
<1>7. LeftOf(file, 0)'
  BY <1>2, <1>4 DEF LeftOf
<1>8. cmd'[c].lines = file' /\ 0 \in 0..Len(file')
  BY <1>2, <1>3, <1>4, <1>5
<1>9. LeftOf(cmd[c].lines, 0)'
  BY <1>7, <1>8
<1>10. ReplayIsSuffix(c)'
  BY <1>8, <1>9 DEF ReplayIsSuffix
<1>11. PhaseFits(c)' /\ LiveIsAlone(c)'
  BY <1>3, <1>5 DEF PhaseFits, LiveIsAlone, At
<1>12. Till(c)'
  BY <1>6, <1>10, <1>11 DEF Till
<1> QED
  BY <1>6, <1>12, OneIsAll
-------------------------------------------------------------------------------
\* One request

\* A request that is to be repeated, or was the last: the operation may be recorded.
LEMMA TransientKeeps ==
  ASSUME RegisterAssumption, IInv, NEW c \in Command, Sending(c), Transient(c),
         file' = file, posted' = posted \/ posted' = posted \cup {Sends(c)},
         revoked' = revoked
  PROVE  Tables' /\ Till(c)' /\ cmd' \in [Command -> CommandState]
         /\ made' = made /\ rejected' = rejected
<1>1. Typed /\ Tables /\ Till(c)
  BY DEF IInv
<1>2. made' = made /\ rejected' = rejected
  BY DEF Transient
<1>3. cmd \in [Command -> CommandState] /\ cmd[c] \in CommandState
  BY <1>1 DEF Typed
<1>4. Done \subseteq Done'
  BY <1>2 DEF Done
<1>5. Tables'
  <2>1. FileIsMade' /\ MadeIsKept' /\ FileInOrder' /\ RefundsFollow'
    BY <1>1, <1>2, <1>4, DoneGrows
  <2>2. NothingOvertakes'
    BY <1>1, <1>2, SendsUnhindered, RecordsInOrder
  <2>3. RefundsFindTheirSale'
    BY <1>1, <1>2 DEF Tables, RefundsFindTheirSale
  <2> QED
    BY <2>1, <2>2, <2>3 DEF Tables
<1>6. /\ cmd' \in [Command -> CommandState]
      /\ cmd'[c].op = cmd[c].op /\ cmd'[c].lines = cmd[c].lines
      /\ \/ cmd'[c].phase = cmd[c].phase
         \/ At(c, "live") /\ cmd'[c].phase = Offline(c)
         \/ At(c, "replay") /\ cmd'[c].phase = "save rest"
  <2>1. CASE cmd[c].attempt < Attempts
    <3> DEFINE again == [cmd[c] EXCEPT !.attempt = @ + 1]
    <3>1. cmd' = [cmd EXCEPT ![c] = again]
      BY <2>1 DEF Transient
    <3>2. cmd[c].attempt + 1 \in 1..Attempts
      BY <1>3, <2>1 DEF CommandState, RegisterAssumption
    <3>3. again \in CommandState /\ again.op = cmd[c].op /\ again.lines = cmd[c].lines
          /\ again.phase = cmd[c].phase
      BY <1>3, <3>2 DEF CommandState
    <3> HIDE DEF again
    <3> QED
      BY <1>3, <3>1, <3>3
  <2>2. CASE ~(cmd[c].attempt < Attempts) /\ At(c, "live")
    <3>1. Offline(c) \in Phase /\ Goes(c, Offline(c))
      BY <2>2 DEF Transient, Offline, Phase
    <3> QED
      BY <1>3, <2>2, <3>1, GoesTo
  <2>3. CASE ~(cmd[c].attempt < Attempts) /\ ~At(c, "live")
    <3> DEFINE rest == [cmd[c] EXCEPT !.phase = "save rest", !.lines = Undelivered(c), !.attempt = 1]
    <3>1. At(c, "replay") /\ cmd' = [cmd EXCEPT ![c] = rest]
      BY <2>3 DEF Transient, Sending
    <3>2. cmd[c].lines \in Seq(Op) /\ "save rest" \in Phase
      BY <1>3 DEF CommandState, Phase
    <3>3. 1 \in 1..Attempts
      BY DEF RegisterAssumption
    <3>4. rest \in CommandState /\ rest.op = cmd[c].op /\ rest.lines = cmd[c].lines
          /\ rest.phase = "save rest"
      BY <1>3, <3>2, <3>3 DEF CommandState, Undelivered
    <3> HIDE DEF rest
    <3> QED
      BY <1>3, <3>1, <3>4
  <2> QED
    BY <2>1, <2>2, <2>3
<1>7. ReplayIsSuffix(c)'
  <2>1. CASE At(c, "replay")
    BY <1>1, <1>4, <1>6, <2>1, LeftStays DEF Till
  <2>2. CASE At(c, "live")
    BY <1>6, <2>2 DEF ReplayIsSuffix, At, Offline
  <2> QED
    BY <2>1, <2>2 DEF Sending
<1>8. PhaseFits(c)' /\ LiveIsAlone(c)'
  BY <1>1, <1>6 DEF Till, PhaseFits, LiveIsAlone, At, Offline, Sending
<1>9. PostedIsMade(c)'
  <2>1. \A k \in posted' : k \in posted \/ k = Sends(c)
    OBVIOUS
  <2>2. \A k : IsMade(k)' <=> IsMade(k)
    BY <1>2 DEF IsMade
  <2>3. AllDone => AllDone'
    BY <1>2, <1>4 DEF AllDone
  <2>4. CASE At(c, "replay")
    <3>1. IsMade(Sends(c))
      BY <2>4, SendsUnhindered
    <3> QED
      BY <1>1, <1>6, <2>1, <2>2, <2>3, <3>1 DEF Till, PostedIsMade
  <2>5. CASE At(c, "live")
    <3>1. AllDone /\ Sends(c) = cmd[c].op
      BY <2>5, SendsUnhindered
    <3> QED
      BY <1>1, <1>6, <2>1, <2>2, <2>3, <3>1 DEF Till, PostedIsMade
  <2> QED
    BY <2>4, <2>5 DEF Sending
<1>10. SaleWasMade(c)'
  BY <1>1, <1>2, <1>6 DEF Till, SaleWasMade, IsMade
<1> QED
  BY <1>2, <1>5, <1>6, <1>7, <1>8, <1>9, <1>10 DEF Till

\* A request that was answered for good, with success or without.
LEMMA DeliveredKeeps ==
  ASSUME RegisterAssumption, IInv, NEW c \in Command, Sending(c), Delivered(c),
         file' = file, Sends(c) \in Done', revoked' = revoked,
         posted' = posted \/ posted' = posted \cup {Sends(c)},
         rejected' = rejected \/ (revoked /\ rejected' = rejected \cup {Sends(c)})
  PROVE  Tables' /\ Till(c)' /\ cmd' \in [Command -> CommandState] /\ made' \in Seq(Op)
<1>1. Typed /\ Tables /\ Till(c)
  BY DEF IInv
<1>2. cmd \in [Command -> CommandState] /\ cmd[c] \in CommandState /\ made \in Seq(Op)
      /\ posted \subseteq Op
  BY <1>1 DEF Typed
<1>3. Done \subseteq Done' /\ posted' \subseteq posted \cup {Sends(c)}
  BY DEF Done
<1>4. RefundsFindTheirSale'
  BY <1>1 DEF Tables, RefundsFindTheirSale
<1>5. Sends(c) \in Op /\ Unhindered(Sends(c))
  BY SendsUnhindered
<1>6. CASE At(c, "replay")
  <2> DEFINE next == [cmd[c] EXCEPT !.lines = Tail(@), !.attempt = 1]
  <2>1. ~At(c, "live") /\ cmd[c].lines # <<>> /\ cmd[c].lines \in Seq(Op)
        /\ Sends(c) = Head(cmd[c].lines)
    BY <1>2, <1>6 DEF At, Sending, CommandState, Sends
  <2>2. cmd' = [cmd EXCEPT ![c] = next] /\ made' = made
    BY <2>1 DEF Delivered
  <2>3. Tail(cmd[c].lines) \in Seq(Op) /\ 1 \in 1..Attempts
    BY <2>1 DEF RegisterAssumption
  <2>4. next \in CommandState /\ next.op = cmd[c].op /\ next.phase = cmd[c].phase
        /\ next.lines = Tail(cmd[c].lines)
    BY <1>2, <2>3 DEF CommandState
  <2> HIDE DEF next
  <2>5. cmd' \in [Command -> CommandState] /\ cmd'[c] = next
    BY <1>2, <2>2, <2>4
  <2>6. Tables'
    <3>1. FileIsMade' /\ MadeIsKept' /\ FileInOrder' /\ RefundsFollow'
      BY <1>1, <1>3, <2>2, DoneGrows
    <3>2. NothingOvertakes'
      BY <1>1, <1>5, <2>2, RecordsInOrder
    <3> QED
      BY <1>4, <3>1, <3>2 DEF Tables
  <2>7. ReplayIsSuffix(c)'
    <3>1. PICK n \in 0..Len(file) : LeftOf(cmd[c].lines, n)
      BY <1>1, <1>6 DEF Till, ReplayIsSuffix
    <3>2. n + 1 \in 0..Len(file) /\ LeftOf(cmd[c].lines, n + 1)'
      BY <1>1, <1>3, <2>1, <2>4, <2>5, <3>1, NextLine
    <3> QED
      BY <3>2 DEF ReplayIsSuffix
  <2>8. PhaseFits(c)' /\ LiveIsAlone(c)'
    BY <1>1, <1>6, <2>4, <2>5 DEF Till, PhaseFits, LiveIsAlone, At
  <2>9. PostedIsMade(c)'
    <3>1. \A k : IsMade(k)' <=> IsMade(k)
      BY <2>2 DEF IsMade
    <3>2. AllDone => AllDone'
      BY <1>3, <2>2 DEF AllDone
    <3>3. IsMade(Sends(c))
      BY <1>6, SendsUnhindered
    <3> QED
      BY <1>1, <1>3, <2>4, <2>5, <3>1, <3>2, <3>3 DEF Till, PostedIsMade
  <2>10. SaleWasMade(c)'
    BY <1>1, <2>2, <2>4, <2>5 DEF Till, SaleWasMade, IsMade
  <2> QED
    BY <1>2, <2>2, <2>5, <2>6, <2>7, <2>8, <2>9, <2>10 DEF Till
<1>7. CASE At(c, "live")
  <2> DEFINE op == cmd[c].op
  <2>1. file = <<>> /\ AllDone /\ Sends(c) = op /\ op \in Op
    BY <1>5, <1>7, SendsUnhindered
  <2>2. cmd' = [cmd EXCEPT ![c] = NoCommand] /\ Makes(op)
    BY <1>7 DEF Delivered, Ends
  <2>3. cmd' \in [Command -> CommandState] /\ cmd'[c].phase = "idle" /\ cmd'[c].op = None
    BY <1>2, <2>2, NoCommandIs
  <2>4. (made' = made /\ IsMade(op)) \/ (~IsMade(op) /\ made' = Append(made, op))
    BY <1>1, <2>1, <2>2, MakesOnce DEF RegisterAssumption
  <2>5. /\ made' \in Seq(Op) /\ AllDone' /\ RefundsFollow'
        /\ \A k : IsMade(k) \/ k = op => IsMade(k)'
    <3>1. CASE made' = made /\ IsMade(op)
      BY <1>1, <1>2, <1>3, <2>1, <3>1 DEF AllDone, IsMade, Tables, RefundsFollow
    <3>2. CASE made' = Append(made, op)
      <4>1. made' \in Seq(Op) /\ Len(made') = Len(made) + 1 /\ made'[Len(made')] = op
            /\ Len(made) \in Nat /\ \A i \in 1..Len(made) : made'[i] = made[i]
        BY <1>2, <2>1, <3>2, Appended
      <4>2. AllDone'
        <5>1. \A i \in 1..Len(made) : made[i] \in Done'
          BY <1>3, <2>1 DEF AllDone
        <5>2. op \in Done'
          BY <2>1
        <5> HIDE DEF op
        <5>3. ASSUME NEW i \in 1..Len(made') PROVE made'[i] \in Done'
          BY <4>1, <5>1, <5>2
        <5> QED
          BY <5>3 DEF AllDone
      <4>3. RefundsFollow'
        BY <1>1, <2>1, <3>2, RefundsStayBehind DEF Tables, Till, SaleWasMade
      <4>4. \A k : IsMade(k) \/ k = op => IsMade(k)'
        BY <4>1 DEF IsMade
      <4> QED
        BY <4>1, <4>2, <4>3, <4>4
    <3> QED
      BY <2>4, <3>1, <3>2
  <2>6. Tables'
    <3>1. FileIsMade'
      BY <2>1 DEF FileIsMade
    <3> QED
      BY <1>4, <2>5, <3>1, AllDoneInOrder DEF Tables
  <2>7. \A k \in posted' : IsMade(k)'
    BY <1>1, <1>3, <2>1, <2>5 DEF Till, PostedIsMade
  <2>8. posted' \subseteq Op
    BY <1>2, <1>3, <1>5
  <2> QED
    BY <2>3, <2>5, <2>6, <2>7, <2>8, TillEnds
<1> QED
  BY <1>6, <1>7 DEF Sending

LEMMA UnreachableKeeps ==
  ASSUME RegisterAssumption, OneTill, IInv, NEW c \in Command, Unreachable(c)
  PROVE  IInv'
<1>1. Sending(c) /\ Transient(c) /\ UNCHANGED <<file, posted, count, revoked>>
      /\ faults < MaxFaults /\ faults' = faults + 1
  BY DEF Unreachable, Fault, api
<1>2. Tables' /\ Till(c)' /\ cmd' \in [Command -> CommandState]
      /\ made' = made /\ rejected' = rejected
  BY <1>1, TransientKeeps
<1>3. Typed'
  BY <1>1, <1>2 DEF IInv, Typed, RegisterAssumption
<1> QED
  BY <1>2, <1>3, OneIsAll

LEMMA LimitedKeeps ==
  ASSUME RegisterAssumption, OneTill, IInv, NEW c \in Command, Limited(c)
  PROVE  IInv'
<1>1. Sending(c) /\ Transient(c) /\ UNCHANGED <<file, posted, count, revoked, faults>>
  BY DEF Limited, api
<1>2. Tables' /\ Till(c)' /\ cmd' \in [Command -> CommandState]
      /\ made' = made /\ rejected' = rejected
  BY <1>1, TransientKeeps
<1>3. Typed'
  BY <1>1, <1>2 DEF IInv, Typed
<1> QED
  BY <1>2, <1>3, OneIsAll

LEMMA WithoutKeyKeeps ==
  ASSUME RegisterAssumption, OneTill, IInv, NEW c \in Command, WithoutKey(c)
  PROVE  IInv'
<1>1. Sending(c) /\ Delivered(c) /\ revoked /\ rejected' = rejected \cup {Sends(c)}
      /\ UNCHANGED <<file, posted, count, revoked, faults>>
  BY DEF WithoutKey, Refused, api
<1>2. Sends(c) \in Op /\ Sends(c) \in Done'
  BY <1>1, SendsUnhindered DEF Done
<1>3. Tables' /\ Till(c)' /\ cmd' \in [Command -> CommandState] /\ made' \in Seq(Op)
  BY <1>1, <1>2, DeliveredKeeps
<1>4. Typed'
  BY <1>1, <1>2, <1>3 DEF IInv, Typed
<1> QED
  BY <1>3, <1>4, OneIsAll

\* With a valid key, a refund that is sent finds its sale: the 404 is out of reach.
LEMMA SaleIsFound ==
  ASSUME IInv, NEW c \in Command, Sending(c), ~revoked, Sends(c) \in Refund
  PROVE  Original[Sends(c)] \in posted
<1>1. Original[Sends(c)] \in Done
  BY SendsUnhindered DEF Unhindered
<1>2. rejected = {}
  BY DEF IInv, Tables, RefundsFindTheirSale
<1> QED
  BY <1>1, <1>2 DEF Done

LEMMA HandledKeeps ==
  ASSUME RegisterAssumption, OneTill, IInv, NEW c \in Command, Handled(c)
  PROVE  IInv'
<1>1. Sending(c) /\ ~revoked /\ count < Limit /\ count' = count + 1 /\ UNCHANGED <<file, revoked>>
  BY DEF Handled
<1>2. posted' = posted \cup {Sends(c)}
      /\ \/ Delivered(c) /\ UNCHANGED <<rejected, faults>>
         \/ Fault /\ Transient(c)
  BY <1>1, SaleIsFound DEF Handled
<1>3. Sends(c) \in Op /\ Sends(c) \in Done'
  BY <1>1, <1>2, SendsUnhindered DEF Done
<1>4. Typed /\ count' \in 0..Limit
  BY <1>1 DEF IInv, Typed, RegisterAssumption
<1>5. CASE Delivered(c) /\ UNCHANGED <<rejected, faults>>
  <2>1. Tables' /\ Till(c)' /\ cmd' \in [Command -> CommandState] /\ made' \in Seq(Op)
    BY <1>1, <1>2, <1>3, <1>5, DeliveredKeeps
  <2>2. Typed'
    BY <1>1, <1>2, <1>3, <1>4, <1>5, <2>1 DEF Typed
  <2> QED
    BY <2>1, <2>2, OneIsAll
<1>6. CASE Fault /\ Transient(c)
  <2>1. Tables' /\ Till(c)' /\ cmd' \in [Command -> CommandState]
        /\ made' = made /\ rejected' = rejected
    BY <1>1, <1>2, <1>6, TransientKeeps
  <2>2. faults' \in 0..MaxFaults
    BY <1>4, <1>6 DEF Fault, Typed, RegisterAssumption
  <2>3. Typed'
    BY <1>1, <1>2, <1>3, <1>4, <2>1, <2>2 DEF Typed
  <2> QED
    BY <2>1, <2>3, OneIsAll
<1> QED
  BY <1>2, <1>5, <1>6

-------------------------------------------------------------------------------
\* The queue file

\* What the replay has left is all of the file that still matters.
LEMMA SaveRestKeeps ==
  ASSUME RegisterAssumption, OneTill, IInv, NEW c \in Command, SaveRest(c)
  PROVE  IInv'
<1> DEFINE rest == cmd[c].lines
<1>1. Typed /\ Tables /\ Till(c)
  BY DEF IInv
<1>2. cmd \in [Command -> CommandState] /\ rest \in Seq(Op) /\ file \in Seq(Op)
  BY <1>1 DEF Typed, CommandState
<1>3. At(c, "save rest") /\ file' = rest /\ Goes(c, Offline(c))
      /\ UNCHANGED <<made, posted, rejected, count, revoked, faults>>
  BY DEF SaveRest, api
<1>4. PICK n \in 0..Len(file) : LeftOf(rest, n)
  BY <1>1, <1>3 DEF Till, ReplayIsSuffix
<1>5. Len(rest) = Len(file) - n /\ \A i \in 1..Len(rest) : rest[i] = file[n + i]
  BY <1>4 DEF LeftOf
<1>6. \A i \in 1..n : file[i] \in Done
  BY <1>4 DEF LeftOf
<1>7. Offline(c) \in Phase /\ Offline(c) = (IF cmd[c].op = None THEN "end" ELSE "enqueue")
  BY DEF Offline, Phase
<1>8. cmd' \in [Command -> CommandState] /\ cmd'[c].phase = Offline(c) /\ cmd'[c].op = cmd[c].op
  BY <1>2, <1>3, <1>7, GoesTo
<1> HIDE DEF rest
<1>9. Len(rest) \in Nat /\ Len(file) \in Nat /\ n \in Nat
  BY <1>2
<1>19. Done' = Done
  BY <1>3 DEF Done
\* Every line of the file is passed or left.
<1>10. ASSUME NEW q \in 1..Len(file), file[q] \notin Done
       PROVE  q - n \in 1..Len(rest) /\ rest[q - n] = file[q]
  <2>1. q > n
    BY <1>6, <1>9, <1>10
  <2>2. q - n \in 1..Len(rest) /\ n + (q - n) = q
    BY <1>5, <1>9, <2>1
  <2> QED
    BY <1>5, <2>2
<1>11. ASSUME NEW q \in 1..Len(rest)
       PROVE  n + q \in 1..Len(file) /\ rest[q] = file[n + q]
  BY <1>5, <1>9
<1>12. FileIsMade'
  <2>1. ASSUME NEW q \in 1..Len(rest) PROVE \E i \in 1..Len(made) : made[i] = rest[q]
    BY <1>1, <1>11 DEF Tables, FileIsMade
  <2> QED
    BY <1>3, <2>1 DEF FileIsMade
<1>13. MadeIsKept'
  <2>1. ASSUME NEW i \in 1..Len(made), made[i] \notin Done
        PROVE  \E q \in 1..Len(rest) : rest[q] = made[i]
    <3>1. PICK q \in 1..Len(file) : file[q] = made[i]
      BY <1>1, <2>1 DEF Tables, MadeIsKept
    <3> QED
      BY <1>10, <2>1, <3>1
  <2> QED
    BY <1>3, <1>19, <2>1 DEF MadeIsKept
<1>14. FileInOrder'
  <2>1. ASSUME NEW i \in 1..Len(made), NEW j \in 1..Len(made), NEW q \in 1..Len(rest),
               i < j, rest[q] = made[j], made[i] \notin Done
        PROVE  \E p \in 1..Len(rest) : p < q /\ rest[p] = made[i]
    <3>4. n + q \in 1..Len(file) /\ file[n + q] = made[j]
      BY <1>11, <2>1
    <3>1. PICK p \in 1..Len(file) : p < n + q /\ file[p] = made[i]
      BY <1>1, <2>1, <3>4 DEF Tables, FileInOrder
    <3>2. p - n \in 1..Len(rest) /\ rest[p - n] = made[i]
      BY <1>10, <2>1, <3>1
    <3>3. p - n < q
      BY <1>9, <3>1
    <3> QED
      BY <3>2, <3>3
  <2>2. \A i, j \in 1..Len(made) : \A q \in 1..Len(rest) :
          i < j /\ rest[q] = made[j] /\ made[i] \notin Done
            => \E p \in 1..Len(rest) : p < q /\ rest[p] = made[i]
    BY <2>1
  <2>3. file' = rest /\ made' = made
    BY <1>3
  <2>4. ASSUME NEW i \in 1..Len(made'), NEW j \in 1..Len(made'), NEW q \in 1..Len(file'),
               i < j, file'[q] = made'[j], made'[i] \notin Done'
        PROVE  \E p \in 1..Len(file') : p < q /\ file'[p] = made'[i]
    BY <1>19, <2>2, <2>3, <2>4
  <2> QED
    BY <2>4 DEF FileInOrder
<1>15. RefundsFollow' /\ NothingOvertakes' /\ RefundsFindTheirSale'
  BY <1>1, <1>3 DEF Tables, RefundsFollow, NothingOvertakes, RefundsFindTheirSale
<1>16. PhaseFits(c)' /\ LiveIsAlone(c)' /\ ReplayIsSuffix(c)'
  BY <1>7, <1>8 DEF PhaseFits, LiveIsAlone, ReplayIsSuffix, At
<1>17. PostedIsMade(c)' /\ SaleWasMade(c)'
  BY <1>1, <1>3, <1>8, OperationStays
<1>18. Typed'
  BY <1>1, <1>2, <1>3, <1>8 DEF Typed
<1> QED
  BY <1>12, <1>13, <1>14, <1>15, <1>16, <1>17, <1>18, OneIsAll DEF Till, Tables

\* A replay that came to the end of its lines has sent the whole file.
LEMMA SaveNothingKeeps ==
  ASSUME RegisterAssumption, OneTill, IInv, NEW c \in Command, SaveNothing(c)
  PROVE  IInv'
<1>1. Typed /\ Tables /\ Till(c)
  BY DEF IInv
<1>2. cmd \in [Command -> CommandState] /\ file \in Seq(Op)
  BY <1>1 DEF Typed
<1>3. At(c, "replay") /\ cmd[c].lines = <<>> /\ file' = <<>> /\ Goes(c, Online(c))
      /\ UNCHANGED <<made, posted, rejected, count, revoked, faults>>
  BY DEF SaveNothing, api
<1>4. PICK n \in 0..Len(file) : LeftOf(cmd[c].lines, n)
  BY <1>1, <1>3 DEF Till, ReplayIsSuffix
<1>5. \A q \in 1..Len(file) : file[q] \in Done
  <2>1. n = Len(file)
    BY <1>2, <1>3, <1>4 DEF LeftOf
  <2> QED
    BY <1>4, <2>1 DEF LeftOf
<1>6. AllDone'
  BY <1>1, <1>3, <1>5 DEF Tables, MadeIsKept, AllDone, Done
<1>7. Online(c) \in Phase /\ Online(c) = (IF cmd[c].op = None THEN "end" ELSE "live")
  BY DEF Online, Phase
<1>8. cmd' \in [Command -> CommandState] /\ cmd'[c].phase = Online(c) /\ cmd'[c].op = cmd[c].op
  BY <1>2, <1>3, <1>7, GoesTo
<1>9. FileIsMade'
  BY <1>3 DEF FileIsMade
<1>10. RefundsFollow' /\ RefundsFindTheirSale'
  BY <1>1, <1>3 DEF Tables, RefundsFollow, RefundsFindTheirSale
<1>11. PhaseFits(c)' /\ LiveIsAlone(c)' /\ ReplayIsSuffix(c)'
  BY <1>3, <1>7, <1>8 DEF PhaseFits, LiveIsAlone, ReplayIsSuffix, At
<1>12. PostedIsMade(c)' /\ SaleWasMade(c)'
  BY <1>1, <1>3, <1>8, OperationStays
<1>13. Typed'
  BY <1>1, <1>3, <1>8 DEF Typed
<1> QED
  BY <1>6, <1>9, <1>10, <1>11, <1>12, <1>13, AllDoneInOrder, OneIsAll DEF Till, Tables

LEMMA SaveFailsKeeps ==
  ASSUME RegisterAssumption, OneTill, IInv, NEW c \in Command, SaveFails(c)
  PROVE  IInv'
<1>1. Typed /\ Tables /\ Till(c)
  BY DEF IInv
<1>2. Goes(c, Offline(c)) /\ faults < MaxFaults /\ faults' = faults + 1
      /\ UNCHANGED <<file, made, posted, rejected, count, revoked>>
  BY DEF SaveFails, Fault, api
<1>3. Offline(c) \in Phase /\ Offline(c) = (IF cmd[c].op = None THEN "end" ELSE "enqueue")
  BY DEF Offline, Phase
<1>4. cmd' \in [Command -> CommandState] /\ cmd'[c].phase = Offline(c) /\ cmd'[c].op = cmd[c].op
  BY <1>1, <1>2, <1>3, GoesTo DEF Typed
<1>5. Tables' /\ PostedIsMade(c)' /\ SaleWasMade(c)'
  BY <1>1, <1>2, <1>4, TablesRest, OperationStays
<1>6. faults' \in 0..MaxFaults
  BY <1>1, <1>2 DEF Typed, RegisterAssumption
<1>7. Typed'
  BY <1>1, <1>2, <1>4, <1>6 DEF Typed
<1>8. PhaseFits(c)' /\ LiveIsAlone(c)' /\ ReplayIsSuffix(c)'
  BY <1>3, <1>4 DEF PhaseFits, LiveIsAlone, ReplayIsSuffix, At
<1> QED
  BY <1>5, <1>7, <1>8, OneIsAll DEF Till

\* What is appended is behind everything that is not done.
LEMMA EnqueueKeeps ==
  ASSUME RegisterAssumption, OneTill, IInv, NEW c \in Command, Enqueue(c)
  PROVE  IInv'
<1> DEFINE op == cmd[c].op
<1>1. Typed /\ Tables /\ Till(c)
  BY DEF IInv
<1>2. cmd \in [Command -> CommandState] /\ cmd[c] \in CommandState
      /\ file \in Seq(Op) /\ made \in Seq(Op) /\ posted \subseteq Op
  BY <1>1 DEF Typed
<1>3. op \in Op
  BY <1>1, <1>2 DEF Enqueue, Till, PhaseFits, CommandState
<1>4. file' = Append(file, op) /\ cmd' = [cmd EXCEPT ![c] = NoCommand] /\ Makes(op)
      /\ UNCHANGED <<posted, rejected, count, revoked, faults>>
  BY DEF Enqueue, Ends, api
<1>5. cmd' \in [Command -> CommandState] /\ cmd'[c].phase = "idle" /\ cmd'[c].op = None
  BY <1>2, <1>4, NoCommandIs
<1>6. (made' = made /\ IsMade(op)) \/ (~IsMade(op) /\ made' = Append(made, op))
  BY <1>1, <1>3, <1>4, MakesOnce DEF RegisterAssumption
<1>7. op \in posted => IsMade(op) \/ AllDone
  BY <1>1 DEF Till, PostedIsMade
<1>8. op \in Refund => IsMade(Original[op])
  BY <1>1 DEF Till, SaleWasMade
<1>9. \A k \in posted : IsMade(k) \/ k = op
  BY <1>1 DEF Till, PostedIsMade
<1> HIDE DEF op
<1>10. Done' = Done
  BY <1>4 DEF Done
<1>11. file' \in Seq(Op) /\ Len(file') = Len(file) + 1 /\ file'[Len(file')] = op
       /\ Len(file) \in Nat /\ \A q \in 1..Len(file) : file'[q] = file[q]
  BY <1>2, <1>3, <1>4, Appended
<1>12. 1..Len(file) \subseteq 1..Len(file') /\ Len(file') \in 1..Len(file')
       /\ \A q \in 1..Len(file') : q \in 1..Len(file) \/ (q = Len(file') /\ \A p \in 1..Len(file) : p < q)
  BY <1>11
\* made is as before, or has op at its new end.
<1>13. /\ made' \in Seq(Op) /\ Len(made) \in Nat /\ 1..Len(made) \subseteq 1..Len(made')
       /\ \A i \in 1..Len(made) : made'[i] = made[i]
       /\ \A i \in 1..Len(made') : i \in 1..Len(made) \/ (~IsMade(op) /\ i = Len(made) + 1 /\ made'[i] = op)
       /\ RefundsFollow' /\ \E i \in 1..Len(made') : made'[i] = op
  <2>1. CASE made' = made /\ IsMade(op)
    <3>1. RefundsFollow'
      BY <1>1, <2>1 DEF Tables, RefundsFollow
    <3>2. \E i \in 1..Len(made') : made'[i] = op
      BY <2>1 DEF IsMade
    <3> QED
      BY <1>2, <2>1, <3>1, <3>2
  <2>2. CASE ~IsMade(op) /\ made' = Append(made, op)
    <3>1. made' \in Seq(Op) /\ Len(made') = Len(made) + 1 /\ made'[Len(made')] = op
          /\ Len(made) \in Nat /\ \A i \in 1..Len(made) : made'[i] = made[i]
      BY <1>2, <1>3, <2>2, Appended
    <3>2. RefundsFollow'
      BY <1>1, <1>3, <1>8, <2>2, RefundsStayBehind DEF Tables
    <3>3. \E i \in 1..Len(made') : made'[i] = op
      <4>1. Len(made') \in 1..Len(made')
        BY <3>1
      <4> QED
        BY <3>1, <4>1
    <3> QED
      BY <2>2, <3>1, <3>2, <3>3
  <2> QED
    BY <1>6, <2>1, <2>2
<1>14. FileIsMade'
  <2>1. ASSUME NEW q \in 1..Len(file') PROVE \E i \in 1..Len(made') : made'[i] = file'[q]
    <3>1. CASE q \in 1..Len(file)
      BY <1>1, <1>11, <1>13, <3>1 DEF Tables, FileIsMade
    <3>2. CASE q = Len(file')
      <4>1. PICK i \in 1..Len(made') : made'[i] = op
        BY <1>13
      <4> QED
        BY <1>11, <3>2, <4>1
    <3> QED
      BY <1>12, <3>1, <3>2
  <2> QED
    BY <2>1 DEF FileIsMade
<1>15. ASSUME NEW i \in 1..Len(made'), made'[i] \notin Done
       PROVE  \/ \E q \in 1..Len(file) : file[q] = made'[i]
              \/ i = Len(made) + 1 /\ made'[i] = op
  BY <1>1, <1>13, <1>15 DEF Tables, MadeIsKept
<1>16. MadeIsKept'
  <2>1. ASSUME NEW i \in 1..Len(made'), made'[i] \notin Done
        PROVE  \E q \in 1..Len(file') : file'[q] = made'[i]
    BY <1>11, <1>12, <1>15, <2>1
  <2> QED
    BY <1>10, <2>1 DEF MadeIsKept
<1>17. FileInOrder'
  <2>1. ASSUME NEW i \in 1..Len(made'), NEW j \in 1..Len(made'), NEW q \in 1..Len(file'),
               i < j, file'[q] = made'[j], made'[i] \notin Done
        PROVE  \E p \in 1..Len(file') : p < q /\ file'[p] = made'[i]
    <3>1. i \in 1..Len(made) /\ made'[i] = made[i]
      BY <1>13, <2>1
    <3>2. CASE q = Len(file')
      <4>1. PICK p \in 1..Len(file) : file[p] = made[i]
        BY <1>1, <2>1, <3>1 DEF Tables, MadeIsKept
      <4> QED
        BY <1>11, <1>12, <3>1, <3>2, <4>1
    <3>3. CASE q \in 1..Len(file)
      <4>1. file[q] = made'[j]
        BY <1>11, <2>1, <3>3
      <4>2. IsMade(file[q])
        BY <1>1, <3>3 DEF Tables, FileIsMade, IsMade
      <4>3. j \in 1..Len(made) /\ made'[j] = made[j]
        BY <1>13, <4>1, <4>2
      <4>4. PICK p \in 1..Len(file) : p < q /\ file[p] = made[i]
        BY <1>1, <2>1, <3>1, <3>3, <4>1, <4>3 DEF Tables, FileInOrder
      <4> QED
        BY <1>11, <1>12, <3>1, <4>4
    <3> QED
      BY <1>12, <3>2, <3>3
  <2>2. \A i, j \in 1..Len(made') : \A q \in 1..Len(file') :
          i < j /\ file'[q] = made'[j] /\ made'[i] \notin Done
            => \E p \in 1..Len(file') : p < q /\ file'[p] = made'[i]
    BY <2>1
  <2> QED
    BY <1>10, <2>2 DEF FileInOrder
<1>18. NothingOvertakes'
  <2>1. ASSUME NEW i \in 1..Len(made'), NEW j \in 1..Len(made'), i < j, made'[j] \in posted
        PROVE  made'[i] \in Done
    <3>1. i \in 1..Len(made) /\ made'[i] = made[i]
      BY <1>13, <2>1
    <3>2. CASE j \in 1..Len(made)
      BY <1>1, <1>13, <2>1, <3>1, <3>2 DEF Tables, NothingOvertakes, Done
    <3>3. CASE ~IsMade(op) /\ made'[j] = op
      BY <1>7, <2>1, <3>1, <3>3 DEF AllDone
    <3> QED
      BY <1>13, <3>2, <3>3
  <2>2. \A i, j \in 1..Len(made') : i < j /\ made'[j] \in posted => made'[i] \in Done
    BY <2>1
  <2> QED
    BY <1>4, <2>2 DEF NothingOvertakes, Done
<1>19. RefundsFindTheirSale'
  BY <1>1, <1>4 DEF Tables, RefundsFindTheirSale
<1>20. \A k \in posted' : IsMade(k)'
  <2>1. ASSUME NEW k, IsMade(k) PROVE IsMade(k)'
    BY <1>13, <2>1 DEF IsMade
  <2>2. ASSUME NEW k \in posted PROVE IsMade(k)'
    <3>1. CASE IsMade(k)
      BY <2>1, <3>1
    <3>2. CASE k = op
      BY <1>13, <3>2 DEF IsMade
    <3> QED
      BY <1>9, <3>1, <3>2
  <2> QED
    BY <1>4, <2>2
<1>21. Till(c)'
  BY <1>2, <1>4, <1>5, <1>20, TillEnds
<1>22. Typed'
  BY <1>1, <1>4, <1>5, <1>11, <1>13 DEF Typed
<1> QED
  BY <1>13, <1>14, <1>16, <1>17, <1>18, <1>19, <1>21, <1>22, OneIsAll DEF Tables

LEMMA EndReplayKeeps ==
  ASSUME RegisterAssumption, OneTill, IInv, NEW c \in Command, EndReplay(c)
  PROVE  IInv'
<1>1. Typed /\ Tables /\ Till(c)
  BY DEF IInv
<1>2. cmd[c].op = None /\ cmd' = [cmd EXCEPT ![c] = NoCommand] /\ made' = made
      /\ UNCHANGED <<file, posted, rejected, count, revoked, faults>>
  BY <1>1 DEF EndReplay, Ends, Makes, api, Till, PhaseFits
<1>3. cmd' \in [Command -> CommandState] /\ cmd'[c].phase = "idle" /\ cmd'[c].op = None
  BY <1>1, <1>2, NoCommandIs DEF Typed
<1>4. posted \subseteq Op /\ None \notin Op
  BY <1>1 DEF Typed, RegisterAssumption
<1>5. \A k \in posted' : IsMade(k)'
  BY <1>1, <1>2, <1>4 DEF Till, PostedIsMade, IsMade
<1>6. Till(c)'
  BY <1>2, <1>3, <1>4, <1>5, TillEnds
<1>7. Typed' /\ Tables'
  BY <1>1, <1>2, <1>3, TablesRest DEF Typed
<1> QED
  BY <1>6, <1>7, OneIsAll

-------------------------------------------------------------------------------
\* A command that dies leaves its operation unmade, unless the API has it: then
\* everything before it is done.
LEMMA KilledKeeps ==
  ASSUME RegisterAssumption, OneTill, IInv, NEW c \in Command, Killed(c)
  PROVE  IInv'
<1> DEFINE op == IF cmd[c].op \in posted THEN cmd[c].op ELSE None
<1>1. Typed /\ Tables /\ Till(c)
  BY DEF IInv
<1>2. cmd \in [Command -> CommandState] /\ cmd[c] \in CommandState /\ made \in Seq(Op)
      /\ posted \subseteq Op /\ None \notin Op
  BY <1>1 DEF Typed, RegisterAssumption
<1>3. cmd' = [cmd EXCEPT ![c] = NoCommand] /\ Makes(op)
      /\ UNCHANGED <<file, posted, rejected, count, revoked>> /\ Fault
  BY DEF Killed, api
<1>4. cmd' \in [Command -> CommandState] /\ cmd'[c].phase = "idle" /\ cmd'[c].op = None
  BY <1>2, <1>3, NoCommandIs
<1>5. op \in posted \cup {None} /\ (op = None => cmd[c].op \notin posted)
      /\ (op # None => op = cmd[c].op)
  BY <1>2
<1>6. op # None => IsMade(op) \/ AllDone
  BY <1>1, <1>5 DEF Till, PostedIsMade
<1>7. op \in Refund => IsMade(Original[op])
  BY <1>1, <1>2, <1>5 DEF Till, SaleWasMade, Op
<1>8. \A k \in posted : IsMade(k) \/ k = op
  BY <1>1, <1>5 DEF Till, PostedIsMade
<1> HIDE DEF op
<1>9. op \in Op \cup {None}
  BY <1>2, <1>5
<1>10. \/ made' = made /\ (op = None \/ IsMade(op))
       \/ op \in Op /\ ~IsMade(op) /\ made' = Append(made, op)
  BY <1>1, <1>3, <1>9, MakesOnce
<1>11. faults' \in 0..MaxFaults
  BY <1>1, <1>3 DEF Fault, Typed, RegisterAssumption
<1>12. CASE made' = made /\ (op = None \/ IsMade(op))
  <2>1. Tables'
    BY <1>1, <1>3, <1>12, TablesRest
  <2>2. \A k \in posted' : IsMade(k)'
    <3>1. \A k \in posted : IsMade(k)
      BY <1>2, <1>8, <1>12
    <3> QED
      BY <1>3, <1>12, <3>1 DEF IsMade
  <2>3. Till(c)'
    BY <1>2, <1>3, <1>4, <2>2, TillEnds
  <2>4. Typed'
    BY <1>1, <1>3, <1>4, <1>11, <1>12 DEF Typed
  <2> QED
    BY <2>1, <2>3, <2>4, OneIsAll
<1>13. CASE op \in Op /\ ~IsMade(op) /\ made' = Append(made, op)
  <2>1. AllDone /\ op \in posted
    BY <1>2, <1>5, <1>6, <1>13
  <2>2. made' \in Seq(Op) /\ Len(made') = Len(made) + 1 /\ made'[Len(made')] = op
        /\ Len(made) \in Nat /\ \A i \in 1..Len(made) : made'[i] = made[i]
    BY <1>2, <1>13, Appended
  <2>3. 1..Len(made) \subseteq 1..Len(made') /\ Len(made') \in 1..Len(made')
        /\ \A i \in 1..Len(made') : i \in 1..Len(made) \/ i = Len(made')
    BY <2>2
  <2>4. AllDone'
    <3>1. ASSUME NEW i \in 1..Len(made') PROVE made'[i] \in Done
      <4>1. CASE i \in 1..Len(made)
        BY <2>1, <2>2, <4>1 DEF AllDone
      <4>2. CASE i = Len(made')
        BY <2>1, <2>2, <4>2 DEF Done
      <4> QED
        BY <2>3, <4>1, <4>2
    <3>2. Done' = Done
      BY <1>3 DEF Done
    <3> QED
      BY <3>1, <3>2 DEF AllDone
  <2>5. FileIsMade'
    BY <1>1, <1>3, <2>2, <2>3 DEF Tables, FileIsMade
  <2>6. RefundsFollow'
    BY <1>1, <1>7, <1>13, RefundsStayBehind DEF Tables
  <2>7. RefundsFindTheirSale'
    BY <1>1, <1>3 DEF Tables, RefundsFindTheirSale
  <2>8. \A k \in posted' : IsMade(k)'
    <3>1. ASSUME NEW k \in posted PROVE \E i \in 1..Len(made') : made'[i] = k
      <4>1. CASE IsMade(k)
        BY <2>2, <2>3, <4>1 DEF IsMade
      <4>2. CASE k = op
        BY <2>2, <2>3, <4>2
      <4> QED
        BY <1>8, <4>1, <4>2
    <3> QED
      BY <1>3, <3>1 DEF IsMade
  <2>9. Till(c)'
    BY <1>2, <1>3, <1>4, <2>8, TillEnds
  <2>10. Typed'
    BY <1>1, <1>3, <1>4, <1>11, <2>2 DEF Typed
  <2>11. Tables'
    BY <2>4, <2>5, <2>6, <2>7, AllDoneInOrder DEF Tables
  <2> QED
    BY <2>9, <2>10, <2>11, OneIsAll
<1> QED
  BY <1>10, <1>12, <1>13

\* The key's window and the key itself.
LEMMA ApiKeeps ==
  ASSUME RegisterAssumption, IInv, NextWindow \/ RevokeKey
  PROVE  IInv'
<1>1. Typed /\ Tables
  BY DEF IInv
<1>2. UNCHANGED <<file, cmd, made, posted, rejected>> /\ (revoked' = revoked \/ revoked' = TRUE)
      /\ count' \in 0..Limit /\ faults' \in 0..MaxFaults
  BY <1>1 DEF NextWindow, RevokeKey, Fault, Typed, RegisterAssumption
<1>3. Typed' /\ Tables'
  BY <1>1, <1>2, TablesRest DEF Typed
<1>4. ASSUME NEW c \in Command PROVE Till(c)'
  <2>1. Till(c)
    BY DEF IInv
  <2> QED
    BY <1>2, <2>1 DEF Till, PhaseFits, LiveIsAlone, ReplayIsSuffix, LeftOf, PostedIsMade,
      SaleWasMade, IsMade, AllDone, Done, At
<1> QED
  BY <1>3, <1>4 DEF IInv

-------------------------------------------------------------------------------
LEMMA InitHolds ==
  ASSUME RegisterAssumption, Init
  PROVE  IInv
<1>1. file = <<>> /\ made = <<>> /\ posted = {} /\ rejected = {}
  BY DEF Init
<1>2. NoCommand \in CommandState /\ NoCommand.phase = "idle" /\ NoCommand.op = None
  <2>1. 1 \in 1..Attempts /\ <<>> \in Seq(Op)
    BY DEF RegisterAssumption
  <2>2. "idle" \in Phase
    BY DEF Phase
  <2> QED
    BY <2>1, <2>2 DEF NoCommand, CommandState
<1>3. Typed
  <2>1. cmd \in [Command -> CommandState]
    BY <1>2 DEF Init
  <2>2. count \in 0..Limit /\ faults \in 0..MaxFaults
    BY DEF Init, RegisterAssumption
  <2>3. <<>> \in Seq(Op)
    OBVIOUS
  <2> QED
    BY <1>1, <2>1, <2>2, <2>3 DEF Init, Typed
<1>4. Tables
  BY <1>1 DEF Tables, FileIsMade, MadeIsKept, FileInOrder, RefundsFollow, NothingOvertakes,
    RefundsFindTheirSale
<1>5. ASSUME NEW c \in Command PROVE Till(c)
  <2>1. cmd[c].phase = "idle" /\ cmd[c].op = None
    BY <1>2 DEF Init
  <2>2. None \notin Op
    BY DEF RegisterAssumption
  <2> QED
    BY <1>1, <2>1, <2>2 DEF Till, PhaseFits, LiveIsAlone, ReplayIsSuffix, PostedIsMade,
      SaleWasMade, At, Op
<1> QED
  BY <1>3, <1>4, <1>5 DEF IInv

\* Every step of a command keeps the invariant.
LEMMA CommandKeeps ==
  ASSUME RegisterAssumption, OneTill, IInv, NEW c \in Command,
         \/ \E op \in Op \cup {None} : Begin(c, op)
         \/ Look(c) \/ Load(c)
         \/ Unreachable(c) \/ WithoutKey(c) \/ Limited(c) \/ Handled(c)
         \/ SaveRest(c) \/ SaveNothing(c) \/ SaveFails(c) \/ Enqueue(c) \/ EndReplay(c)
         \/ Killed(c)
  PROVE  IInv'
BY BeginKeeps, LookKeeps, LoadKeeps, UnreachableKeeps, WithoutKeyKeeps, LimitedKeeps,
   HandledKeeps, SaveRestKeeps, SaveNothingKeeps, SaveFailsKeeps, EnqueueKeeps, EndReplayKeeps,
   KilledKeeps

LEMMA NextKeeps ==
  ASSUME RegisterAssumption, OneTill, IInv, [Next]_vars
  PROVE  IInv'
<1>1. CASE UNCHANGED vars
  <2>1. Typed' /\ Tables'
    BY <1>1, TablesRest DEF vars, IInv, Typed
  <2>2. ASSUME NEW c \in Command PROVE Till(c)'
    <3>1. Till(c)
      BY DEF IInv
    <3> QED
      BY <1>1, <3>1 DEF vars, Till, PhaseFits, LiveIsAlone, ReplayIsSuffix, LeftOf, PostedIsMade,
        SaleWasMade, IsMade, AllDone, Done, At
  <2> QED
    BY <2>1, <2>2 DEF IInv
<1>2. CASE NextWindow \/ RevokeKey
  BY <1>2, ApiKeeps
<1>3. CASE Next /\ ~(NextWindow \/ RevokeKey)
  BY <1>3, CommandKeeps DEF Next
<1> QED
  BY <1>1, <1>2, <1>3

\* The invariant of a till at which one command runs at a time.
THEOREM TillIsInOrder ==
  ASSUME OneTill
  PROVE  Spec => []IInv
<1>1. Init => IInv
  BY InitHolds, RegisterAssumption
<1>2. IInv /\ [Next]_vars => IInv'
  BY NextKeeps, RegisterAssumption
<1> QED
  BY <1>1, <1>2, PTL DEF Spec

\* The types of the module (Register's own formulation).
THEOREM TillIsTyped ==
  ASSUME OneTill
  PROVE  Spec => []TypeOK
<1>1. IInv => TypeOK
  <2> SUFFICES ASSUME IInv PROVE TypeOK
    OBVIOUS
  <2>1. Typed
    BY DEF IInv
  <2>2. ASSUME NEW c \in Command
        PROVE  /\ cmd[c].phase \in Phase /\ cmd[c].op \in Op \cup {None}
               /\ cmd[c].op = None => cmd[c].phase \notin {"live", "enqueue"}
               /\ cmd[c].lines \in Seq(Op) /\ cmd[c].attempt \in 1..Attempts
    <3>1. cmd[c] \in CommandState /\ PhaseFits(c)
      BY <2>1 DEF Typed, IInv, Till
    <3> QED
      BY <3>1 DEF CommandState, PhaseFits, At
  <2> QED
    BY <2>1, <2>2 DEF TypeOK, Typed, Phase
<1> QED
  BY <1>1, TillIsInOrder, PTL

\* Whatever fails between till and API, an operation whose command has ended is
\* recorded, refused by the API or in the file (queue.go and replay).
THEOREM OperationsAreKept ==
  ASSUME OneTill
  PROVE  Spec => []NothingIsLost
<1>1. IInv => NothingIsLost
  <2> SUFFICES ASSUME IInv, NEW op, op \in ToSet(made)
               PROVE  op \in Done \/ op \in ToSet(file)
    BY DEF NothingIsLost, Done
  <2>1. file \in Seq(Op) /\ made \in Seq(Op) /\ MadeIsKept
    BY DEF IInv, Typed, Tables
  <2>2. PICK i \in 1..Len(made) : made[i] = op
    BY <2>1, MembersAre
  <2> QED
    BY <2>1, <2>2, MembersAre DEF MadeIsKept
<1> QED
  BY <1>1, TillIsInOrder, PTL

\* Operations are recorded in the order in which the cashier made them (replay).
THEOREM OperationsKeepTheirOrder ==
  ASSUME OneTill
  PROVE  Spec => []NothingOvertakes
<1>1. IInv => NothingOvertakes
  BY DEF IInv, Tables
<1> QED
  BY <1>1, TillIsInOrder, PTL

\* While the key is valid, no operation is refused: a refund arrives after its sale.
THEOREM NoRefundIsRefused ==
  ASSUME OneTill
  PROVE  Spec => []RefundsFindTheirSale
<1>1. IInv => RefundsFindTheirSale
  BY DEF IInv, Tables
<1> QED
  BY <1>1, TillIsInOrder, PTL
===============================================================================
