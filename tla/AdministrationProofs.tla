-------------------------- MODULE AdministrationProofs --------------------------
(***************************************************************************)
(* The administration API for any number of organisations, users and       *)
(* requests, whatever they ask for.  Only the saves of a configuration run *)
(* under a lock; every other request acts on what it read some statements  *)
(* ago.  So the invariant says for every phase what has been decided by    *)
(* then, and of that, what the other requests can no longer take back.     *)
(***************************************************************************)
EXTENDS Administration, TLAPS

Saves == {"save config", "roll back"}
Logins == {"login", "bootstrap"}
Kinds == Saves \cup Logins \cup
  {"add member", "change member", "create org", "create store", "edit store", "create key", "revoke key"}

ProfileRow == [text: Text \cup {None}, code: Code \cup {None}, invites: BOOLEAN]
WorkRow == [values: Values, seen: 0..MaxVersions]
ConfigRow == [version: Versions, values: Values] \cup {NoConfig}
KeyRow == [store: Store \cup {None}, revoked: BOOLEAN]
Holding == [place: Place, role: Role]
ReadRow == Membership \cup ProfileRow \cup WorkRow \cup {None}
CallRow == [phase: Phase, caller: User \cup {None}, op: Ops \cup {None},
            held: SUBSET Holding,
            read: ReadRow]

\* The kinds of requests that have the phase.
KindsAt(phase) ==
  CASE phase = "load principal"                          -> Kinds \ {"bootstrap"}
    [] phase \in {"find user", "create user"}            -> Logins \cup {"add member"}
    [] phase = "insert member"                           -> {"add member"}
    [] phase \in {"load member", "set role", "set status"} -> {"change member"}
    [] phase \in {"list members", "promote", "grant"}    -> {"bootstrap"}
    [] phase = "load store"  -> Saves \cup {"edit store", "create key", "revoke key"}
    [] phase = "read history"                            -> {"roll back"}
    [] phase \in {"lock config", "upsert", "commit config"} -> Saves
    [] phase = "insert org"                              -> {"create org"}
    [] phase = "insert store"                            -> {"create store"}
    [] phase = "update store"                            -> {"edit store"}
    [] phase = "insert key"                              -> {"create key"}
    [] phase = "revoke key"                              -> {"revoke key"}
    [] OTHER                                             -> Kinds

\* What a request has decided by its phase, from what it held and read itself: this
\* stays true whatever the others do.
Decided(c) ==
  /\ c.phase # "idle" =>
       c.op \in Operation /\ c.caller \in User /\ c.op.kind \in KindsAt(c.phase)
  /\ c.phase \notin Over \cup {"idle", "load principal"} /\ c.op.kind \notin Logins =>
       HasPermission(c.held, PermissionOf(c.op), c.op.org, c.op.store) \/ c.op.kind = "create org"
  /\ c.phase = "insert org" => IsPlatformAdmin(c.held)
  /\ c.phase \in {"create user", "insert member"} /\ c.op.kind = "add member" =>
       /\ OrgAt(c.op.place) = c.op.org
       /\ c.op.role = "platform_admin" => IsPlatformAdmin(c.held)
  /\ c.phase \in {"set role", "set status"} =>
       /\ OrgAt(c.op.place) = c.op.org /\ c.caller # c.op.user
       /\ c.op.role = "platform_admin" => IsPlatformAdmin(c.held)
       /\ IF c.phase = "set role" THEN c.op.role \in Role ELSE c.op.status \in Status
  /\ c.phase \in {"read history", "lock config", "upsert", "commit config", "update store",
                  "insert key", "revoke key"} => OrgOf[c.op.store] = c.op.org
  /\ c.phase = "lock config" /\ c.op.kind = "roll back" => c.read \in WorkRow
  /\ c.phase \in {"upsert", "commit config"} => c.read \in WorkRow /\ AsExpected(c.op, c.read.seen)
  /\ c.phase = "update store" => c.read \in ProfileRow

DecidedCall == {c \in CallRow : Decided(c)}

\* What a request has found that nobody removes: users, organisations, stores and
\* memberships only get more.
RowsThere(c) ==
  /\ c.phase \in {"insert member", "list members", "promote", "grant"} => staff[c.op.user] # "none"
  /\ c.phase \in {"create user", "insert member"} /\ c.op.kind = "add member" =>
       (c.op.place \in Store => c.op.place \in places)
  /\ c.phase \in {"find user", "create user", "list members", "promote", "grant"}
       /\ c.op.kind = "bootstrap" => c.op.org \in places
  /\ c.phase = "promote" => member[c.op.user][c.op.org] # None
  /\ c.phase \in {"set role", "set status"} => member[c.op.user][c.op.place] # None

RowsFound == \A r \in Request : RowsThere(call[r])

StaffTyped ==
  /\ places \subseteq Place /\ \A p \in places : OrgAt(p) \in places
  /\ staff \in [User -> Status \cup {"none"}]
  /\ member \in [User -> [Place -> Membership \cup {None}]]
  /\ \A u \in User, p \in Place : member[u][p] # None => staff[u] # "none" /\ p \in places

SettingsTyped ==
  /\ config \in [Store -> ConfigRow]
  /\ history \in [Store -> [Versions -> Entry \cup {None}]]
  /\ writer \in [Store -> Request \cup {None}]
  /\ profile \in [Store -> ProfileRow]
  /\ key \in [Key -> KeyRow]
  /\ faults \in 0..MaxFaults

CodesDiffer ==
  \A s, t \in Store :
    profile[s].code # None /\ profile[s].code = profile[t].code /\ OrgOf[s] = OrgOf[t] => s = t

\* A configuration's row is locked by one request that is saving it.  One that read a
\* version under the lock still finds it; one that found no row has the lock from its
\* INSERT on, and the row may have appeared before that.
SavesAreSerial ==
  /\ \A s \in Store : writer[s] # None =>
       call[writer[s]].phase \in {"upsert", "commit config"} /\ call[writer[s]].op.store = s
  /\ \A r \in Request : call[r].phase \in {"upsert", "commit config"} =>
       LET s == call[r].op.store
           seen == call[r].read.seen
       IN  /\ seen > 0 \/ call[r].phase = "commit config" => writer[s] = r
           /\ seen > 0 => seen = config[s].version

\* A request that saw no configuration finds none when it commits, or the first version
\* in the history: a configuration older than the history was there to be seen.
FirstsAreRecorded ==
  \A r \in Request : call[r].phase \in {"upsert", "commit config"} /\ call[r].read.seen = 0 =>
    config[call[r].op.store].version = 0 \/ history[call[r].op.store][1] # None

\* A version's request is over, and its expected version was the one before.
SaversAreExpected ==
  \A s \in Store, v \in Versions :
    LET h == history[s][v]
    IN  h # None /\ h.by # None =>
          /\ call[h.by].phase = "done" /\ call[h.by].op.kind \in Saves
          /\ call[h.by].op.expected # None => call[h.by].op.expected = v - 1

EntriesAreExpected == FirstsAreRecorded /\ SaversAreExpected

IInv ==
  /\ StaffTyped /\ call \in [Request -> DecidedCall] /\ RowsFound
  /\ SettingsTyped /\ CodesDiffer
  /\ SavesAreSerial /\ EntriesAreExpected /\ VersionsAreHistory

-------------------------------------------------------------------------------
\* Requests and their rows

LEMMA OperationFacts ==
  ASSUME NEW op \in Operation
  PROVE  /\ op.kind \in Kinds
         /\ op.kind \notin Logins => op.org \in Org /\ op.store \in Store \cup {None}
         /\ op.kind \in Saves \cup {"create store", "edit store", "create key", "revoke key"} =>
              op.store \in Store
         /\ op.kind \in Logins \cup {"add member", "change member"} => op.user \in User
         /\ op.kind \in {"add member", "change member"} => op.place \in Place /\ op.store = None
         /\ op.kind = "add member" => op.role \in Role
         /\ op.kind = "change member" =>
              /\ op.role \in Role \cup {None} /\ op.status \in Status \cup {None}
              /\ op.role # None \/ op.status # None
         /\ op.kind = "bootstrap" => op.org \in Org
         /\ op.kind = "save config" => op.values \in Values
         /\ op.kind = "roll back" => op.version \in Versions
         /\ op.kind \in {"create store", "edit store"} =>
              /\ op.text \in Text \cup {None} /\ op.code \in Code \cup {None, ""}
         /\ op.kind = "create store" => OrgOf[op.store] = op.org
         /\ op.kind \in {"create key", "revoke key"} => op.key \in Key
<1> USE DEF Kinds, Saves, Logins
<1>1. CASE op \in [kind: {"add member"}, org: Org, store: {None}, user: User, place: Place, role: Role]
  BY <1>1
<1>2. CASE op \in MemberFields /\ (op.role # None \/ op.status # None)
  BY <1>2 DEF MemberFields
<1>3. CASE op \in [kind: {"save config"}, org: Org, store: Store, values: Values, expected: Int \cup {None}]
  BY <1>3
<1>4. CASE op \in [kind: {"roll back"}, org: Org, store: Store, version: Versions, expected: Int \cup {None}]
  BY <1>4
<1>5. CASE op \in StoreFields /\ (op.kind = "create store" => OrgOf[op.store] = op.org)
  BY <1>5 DEF StoreFields
<1>6. CASE op \in [kind: {"create key", "revoke key"}, org: Org, store: Store, key: Key]
  BY <1>6
<1>7. CASE op \in [kind: {"create org"}, org: Org, store: {None}]
  BY <1>7
<1>8. CASE op \in [kind: {"login"}, user: User, org: {None}, store: {None}]
  BY <1>8
<1>9. CASE op \in [kind: {"bootstrap"}, user: User, org: Org, store: {None}]
  BY <1>9
<1> HIDE DEF Kinds, Saves, Logins
<1>10. \/ op \in [kind: {"add member"}, org: Org, store: {None}, user: User, place: Place, role: Role]
       \/ op \in MemberFields /\ (op.role # None \/ op.status # None)
       \/ op \in [kind: {"save config"}, org: Org, store: Store, values: Values, expected: Int \cup {None}]
       \/ op \in [kind: {"roll back"}, org: Org, store: Store, version: Versions, expected: Int \cup {None}]
       \/ op \in StoreFields /\ (op.kind = "create store" => OrgOf[op.store] = op.org)
       \/ op \in [kind: {"create key", "revoke key"}, org: Org, store: Store, key: Key]
       \/ op \in [kind: {"create org"}, org: Org, store: {None}]
       \/ op \in [kind: {"login"}, user: User, org: {None}, store: {None}]
       \/ op \in [kind: {"bootstrap"}, user: User, org: Org, store: {None}]
  BY DEF Operation
<1> QED BY <1>1, <1>2, <1>3, <1>4, <1>5, <1>6, <1>7, <1>8, <1>9, <1>10, ZenonT(60)

\* A request goes on with what it held and read, and ends without either.
LEMMA GoesRow ==
  ASSUME call \in [Request -> DecidedCall], NEW r \in Request, NEW phase \in Phase, Goes(r, phase)
  PROVE  \E new \in CallRow :
           /\ call' = [call EXCEPT ![r] = new]
           /\ new.phase = phase /\ new.op = call[r].op /\ new.caller = call[r].caller
           /\ phase \notin Over => new.held = call[r].held /\ new.read = call[r].read
<1>1. call[r] \in CallRow
  BY DEF DecidedCall
<1>2. CASE phase \in Over
  <2> DEFINE new == [call[r] EXCEPT !.phase = phase, !.held = {}, !.read = None]
  <2>1. new \in CallRow /\ new.phase = phase /\ new.op = call[r].op /\ new.caller = call[r].caller
    BY <1>1 DEF CallRow, ReadRow
  <2>2. call' = [call EXCEPT ![r] = new]
    BY <1>2 DEF Goes
  <2> QED BY <1>2, <2>1, <2>2
<1>3. CASE phase \notin Over
  <2> DEFINE new == [call[r] EXCEPT !.phase = phase]
  <2>1. /\ new \in CallRow /\ new.phase = phase /\ new.op = call[r].op
        /\ new.caller = call[r].caller /\ new.held = call[r].held /\ new.read = call[r].read
    BY <1>1 DEF CallRow
  <2>2. call' = [call EXCEPT ![r] = new]
    BY <1>3 DEF Goes
  <2> QED BY <2>1, <2>2
<1> QED BY <1>2, <1>3

\* An ended request has nothing left to decide.
LEMMA EndedIsDecided ==
  ASSUME NEW c \in CallRow, c.phase \in Over, c.op \in Operation, c.caller \in User
  PROVE  c \in DecidedCall
<1>1. c.op.kind \in KindsAt(c.phase)
  BY OperationFacts DEF KindsAt, Over
<1> QED BY <1>1 DEF DecidedCall, Decided, Over

-------------------------------------------------------------------------------
\* Steps that save no configuration

\* A request that works on a membership names its user and its place.
LEMMA MemberPhases ==
  ASSUME NEW c \in DecidedCall,
         c.phase \in {"insert member", "load member", "set role", "set status",
                     "list members", "promote", "grant"}
  PROVE  /\ c.op \in Operation /\ c.op.user \in User
         /\ c.phase \in {"insert member", "load member", "set role", "set status"} =>
              c.op.place \in Place
         /\ c.phase \in {"list members", "promote", "grant"} => c.op.org \in Place
<1>1. c.op \in Operation /\ c.op.kind \in KindsAt(c.phase)
  BY DEF DecidedCall, Decided
<1>2. c.op.kind \in {"add member", "change member", "bootstrap"}
  BY <1>1 DEF KindsAt
<1>3. c.phase \in {"insert member", "load member", "set role", "set status"} =>
        c.op.kind \in {"add member", "change member"}
  BY <1>1 DEF KindsAt
<1>4. c.phase \in {"list members", "promote", "grant"} => c.op.kind = "bootstrap"
  BY <1>1 DEF KindsAt
<1> QED BY <1>1, <1>2, <1>3, <1>4, OperationFacts DEF Logins, Place

\* What one request has found, another step leaves there.
LEMMA RowsKept ==
  ASSUME RowsFound, NEW r \in Request, NEW new,
         call \in [Request -> DecidedCall], call' = [call EXCEPT ![r] = new],
         places \subseteq places',
         \A u \in User : staff[u] # "none" => staff'[u] # "none",
         \A u \in User, p \in Place : member[u][p] # None => member'[u][p] # None,
         RowsThere(new)'
  PROVE  RowsFound'
<1> SUFFICES ASSUME NEW q \in Request
             PROVE  RowsThere(call[q])'
  BY DEF RowsFound
<1>1. CASE q = r
  BY <1>1 DEF RowsThere
<1>2. CASE q # r
  <2>1. call'[q] = call[q]
    BY <1>2
  <2>2. RowsThere(call[q])
    BY DEF RowsFound
  <2>3. call[q] \in DecidedCall
    OBVIOUS
  <2> QED BY <2>1, <2>2, <2>3, MemberPhases DEF RowsThere
<1> QED BY <1>1, <1>2

\* What a request saw before its upsert stays what it saw.
LEMMA FirstsKept ==
  ASSUME IInv, NEW r \in Request, NEW new,
         call' = [call EXCEPT ![r] = new], UNCHANGED <<config, history>>,
         new.phase \in {"upsert", "commit config"} =>
           /\ new.op = call[r].op
           /\ \/ call[r].phase = "upsert" /\ new.read = call[r].read
              \/ new.read.seen = config[call[r].op.store].version
  PROVE  FirstsAreRecorded'
<1>1. call'[r] = new /\ \A q \in Request \ {r} : call'[q] = call[q]
  BY DEF IInv
<1>2. UNCHANGED <<config, history>>
  OBVIOUS
<1> SUFFICES ASSUME NEW q \in Request, call'[q].phase \in {"upsert", "commit config"},
                    call'[q].read.seen = 0
             PROVE  config[call'[q].op.store].version = 0 \/ history[call'[q].op.store][1] # None
  BY <1>2 DEF FirstsAreRecorded
<1>3. CASE q = r
  <2>1. new.phase \in {"upsert", "commit config"} /\ new.read.seen = 0 /\ new.op = call[r].op
    BY <1>1, <1>3
  <2>2. CASE call[r].phase = "upsert" /\ new.read = call[r].read
    BY <1>1, <1>3, <2>1, <2>2 DEF IInv, EntriesAreExpected, FirstsAreRecorded
  <2>3. CASE new.read.seen = config[call[r].op.store].version
    BY <1>1, <1>3, <2>1, <2>3
  <2> QED BY <2>1, <2>2, <2>3
<1>4. CASE q # r
  BY <1>1, <1>4 DEF IInv, EntriesAreExpected, FirstsAreRecorded
<1> QED BY <1>3, <1>4

\* Versions are only added by the request that saves.
LEMMA VersionsKept ==
  ASSUME IInv, NEW r \in Request, NEW new,
         call' = [call EXCEPT ![r] = new], UNCHANGED <<config, history>>,
         call[r].phase # "done", new.phase = "done" => new.op.kind \notin Saves
  PROVE  SaversAreExpected' /\ VersionsAreHistory'
<1>1. call'[r] = new /\ \A q \in Request \ {r} : call'[q] = call[q]
  BY DEF IInv
<1>2. UNCHANGED <<config, history>>
  OBVIOUS
<1>4. SaversAreExpected'
  <2> SUFFICES ASSUME NEW s \in Store, NEW v \in Versions, history[s][v] # None, history[s][v].by # None
               PROVE  LET b == history[s][v].by
                      IN  /\ call'[b].phase = "done" /\ call'[b].op.kind \in Saves
                          /\ call'[b].op.expected # None => call'[b].op.expected = v - 1
    BY <1>2 DEF SaversAreExpected
  <2>1. history[s][v].by \in Request
    <3>1. history[s][v] \in Entry
      BY DEF IInv, SettingsTyped
    <3> QED BY <3>1 DEF Entry
  <2>2. call[history[s][v].by].phase = "done"
    BY DEF IInv, EntriesAreExpected, SaversAreExpected
  <2>3. call'[history[s][v].by] = call[history[s][v].by]
    BY <1>1, <2>1, <2>2
  <2> QED BY <2>3 DEF IInv, EntriesAreExpected, SaversAreExpected
<1>5. VersionsAreHistory'
  <2>1. \A q \in Request : call'[q].phase = "done" /\ call'[q].op.kind \in Saves =>
          q # r /\ call[q].phase = "done" /\ call[q].op.kind \in Saves
    BY <1>1
  <2>2. \A q \in Request : q # r => call'[q] = call[q]
    BY <1>1
  <2>3. \A q \in Request : call'[q].phase = "done" /\ call'[q].op.kind \in Saves =>
          \E v \in Versions : LET h == history'[call'[q].op.store][v] IN h # None /\ h.by = q
    <3> SUFFICES ASSUME NEW q \in Request, call'[q].phase = "done", call'[q].op.kind \in Saves
                 PROVE  \E v \in Versions : LET h == history[call[q].op.store][v] IN h # None /\ h.by = q
      BY <1>2, <2>1, <2>2
    <3>1. call[q].phase = "done" /\ call[q].op.kind \in Saves
      BY <2>1
    <3> QED BY <3>1 DEF IInv, VersionsAreHistory, At, Asks, Saves
  <2>4. \A s \in Store, v \in Versions :
          /\ history'[s][v] # None => v <= config'[s].version
          /\ v <= config'[s].version => history'[s][v] # None \/ v = 1
          /\ history'[s][v] # None /\ v = config'[s].version => history'[s][v].values = config'[s].values
    <3>1. \A s \in Store, v \in Versions :
            /\ history[s][v] # None => v <= config[s].version
            /\ v <= config[s].version => history[s][v] # None \/ v = 1
            /\ history[s][v] # None /\ v = config[s].version => history[s][v].values = config[s].values
      BY DEF IInv, VersionsAreHistory
    <3> QED BY <1>2, <3>1
  <2> QED BY <2>3, <2>4 DEF VersionsAreHistory, At, Asks, Saves
<1> QED BY <1>4, <1>5

LEMMA HistoryKept ==
  ASSUME IInv, NEW r \in Request, NEW new,
         call' = [call EXCEPT ![r] = new], UNCHANGED <<config, history>>,
         call[r].phase # "done", new.phase = "done" => new.op.kind \notin Saves,
         new.phase \in {"upsert", "commit config"} =>
           /\ new.op = call[r].op
           /\ \/ call[r].phase = "upsert" /\ new.read = call[r].read
              \/ new.read.seen = config[call[r].op.store].version
  PROVE  EntriesAreExpected' /\ VersionsAreHistory'
BY FirstsKept, VersionsKept DEF EntriesAreExpected

\* A request that saves nothing leaves the order of the saves as it is.
LEMMA OthersSerial ==
  ASSUME IInv, NEW r \in Request, NEW new,
         call' = [call EXCEPT ![r] = new], UNCHANGED configVars,
         call[r].phase \notin {"upsert", "commit config", "done"},
         new.phase \notin {"upsert", "commit config"},
         new.phase = "done" => new.op.kind \notin Saves
  PROVE  SavesAreSerial' /\ EntriesAreExpected' /\ VersionsAreHistory'
<1>1. call'[r] = new /\ \A q \in Request \ {r} : call'[q] = call[q]
  BY DEF IInv
<1>2. UNCHANGED <<config, history, writer>>
  BY DEF configVars
<1>3. SavesAreSerial'
  <2>1. \A s \in Store : writer[s] # None => writer[s] \in Request \ {r}
    <3>1. writer \in [Store -> Request \cup {None}]
      BY DEF IInv, SettingsTyped
    <3>2. \A s \in Store : writer[s] # None => call[writer[s]].phase \in {"upsert", "commit config"}
      BY DEF IInv, SavesAreSerial
    <3> QED BY <3>1, <3>2
  <2> QED BY <1>1, <1>2, <2>1 DEF IInv, SavesAreSerial
<1>4. EntriesAreExpected' /\ VersionsAreHistory'
  BY <1>2, HistoryKept
<1> QED BY <1>3, <1>4

\* A request's own step that changes nothing but its row
LEMMA QuietStep ==
  ASSUME IInv, NEW r \in Request, NEW new \in DecidedCall,
         call' = [call EXCEPT ![r] = new],
         UNCHANGED <<staffTables, settings>>, faults' \in 0..MaxFaults,
         RowsThere(new),
         call[r].phase \notin {"upsert", "commit config", "done"},
         new.phase \notin {"upsert", "commit config"},
         new.phase = "done" => new.op.kind \notin Saves
  PROVE  IInv'
<1>1. UNCHANGED <<places, staff, member, config, history, writer, profile, key>> /\ UNCHANGED configVars
  BY DEF staffTables, settings, configVars
<1>2. StaffTyped' /\ SettingsTyped' /\ CodesDiffer'
  BY <1>1 DEF IInv, StaffTyped, SettingsTyped, CodesDiffer
<1>3. call' \in [Request -> DecidedCall]
  BY DEF IInv
<1>4. RowsThere(new)'
  BY <1>1 DEF RowsThere
<1>5. RowsFound'
  BY <1>1, <1>4, RowsKept DEF IInv
<1>6. SavesAreSerial' /\ EntriesAreExpected' /\ VersionsAreHistory'
  BY <1>1, OthersSerial
<1> QED BY <1>2, <1>3, <1>5, <1>6 DEF IInv

\* A step that changes staff, memberships or places: none is removed
LEMMA StaffWriteStep ==
  ASSUME IInv, NEW r \in Request, NEW new \in DecidedCall,
         call' = [call EXCEPT ![r] = new],
         UNCHANGED <<settings, faults>>, StaffTyped',
         places \subseteq places',
         \A u \in User : staff[u] # "none" => staff'[u] # "none",
         \A u \in User, p \in Place : member[u][p] # None => member'[u][p] # None,
         RowsThere(new)',
         call[r].phase \notin {"upsert", "commit config", "done"},
         new.phase \notin {"upsert", "commit config"},
         new.phase = "done" => new.op.kind \notin Saves
  PROVE  IInv'
<1>1. UNCHANGED <<config, history, writer, profile, key, faults>> /\ UNCHANGED configVars
  BY DEF settings, configVars
<1>2. SettingsTyped' /\ CodesDiffer'
  BY <1>1 DEF IInv, SettingsTyped, CodesDiffer
<1>3. call' \in [Request -> DecidedCall]
  BY DEF IInv
<1>4. RowsFound'
  BY RowsKept DEF IInv
<1>5. SavesAreSerial' /\ EntriesAreExpected' /\ VersionsAreHistory'
  BY <1>1, OthersSerial
<1> QED BY <1>2, <1>3, <1>4, <1>5 DEF IInv

-------------------------------------------------------------------------------
\* RequireStaff

LEMMA RowTyped ==
  ASSUME IInv, NEW r \in Request
  PROVE  call[r] \in DecidedCall /\ call[r] \in CallRow /\ Decided(call[r])
BY DEF IInv, DecidedCall

LEMMA ActiveTyped ==
  ASSUME StaffTyped, NEW u \in User
  PROVE  Active(u) \in SUBSET Holding
<1>1. \A p \in Place : member[u][p] # None => member[u][p] \in Membership
  BY DEF StaffTyped
<1> QED BY <1>1 DEF Active, Holding, Membership

LEMMA AuthenticateIInv ==
  ASSUME IInv, NEW r \in Request, NEW u \in User, NEW op \in Ops,
         Authenticate(r, u, op), UNCHANGED settings
  PROVE  IInv'
<1>1. PICK phase \in {"load principal", "refused"} :
        call' = [call EXCEPT ![r] = [Idle EXCEPT !.caller = u, !.op = op, !.phase = phase]]
  BY DEF Authenticate
<1> DEFINE new == [Idle EXCEPT !.caller = u, !.op = op, !.phase = phase]
<1>2. op \in Operation /\ op.kind \notin Logins
  BY AdministrationAssumption DEF Authenticate, Logins
<1>3. new \in CallRow /\ new.phase = phase /\ new.op = op /\ new.caller = u
  BY <1>2 DEF CallRow, ReadRow, Idle, Phase, Over
<1> HIDE DEF new
<1>4. new \in DecidedCall
  BY <1>2, <1>3, OperationFacts DEF DecidedCall, Decided, KindsAt, Over, Logins
<1>5. RowsThere(new)
  BY <1>3 DEF RowsThere
<1>6. call' = [call EXCEPT ![r] = new] /\ UNCHANGED <<staffTables, settings>> /\ UNCHANGED faults
      /\ call[r].phase = "idle"
  BY <1>1 DEF Authenticate, At, new
<1>7. faults' \in 0..MaxFaults
  BY <1>6 DEF IInv, SettingsTyped
<1> QED BY <1>3, <1>4, <1>5, <1>6, <1>7, QuietStep

LEMMA BeginWithUserIInv ==
  ASSUME IInv, NEW r \in Request, NEW op \in Ops, BeginWithUser(r, op), UNCHANGED settings
  PROVE  IInv'
<1> DEFINE new == [Idle EXCEPT !.caller = op.user, !.op = op, !.phase = "find user"]
<1>1. op \in Operation /\ op.kind \in Logins /\ (op.kind = "bootstrap" => op.org \in places)
  BY AdministrationAssumption DEF BeginWithUser, Logins
<1>2. op.user \in User
  BY <1>1, OperationFacts
<1>3. new \in CallRow /\ new.phase = "find user" /\ new.op = op /\ new.caller = op.user
  BY <1>1, <1>2 DEF CallRow, ReadRow, Idle, Phase, Over
<1>4. call' = [call EXCEPT ![r] = new] /\ UNCHANGED <<staffTables, settings>> /\ UNCHANGED faults
      /\ call[r].phase = "idle"
  BY DEF BeginWithUser, At
<1> HIDE DEF new
<1>5. new \in DecidedCall
  BY <1>1, <1>2, <1>3 DEF DecidedCall, Decided, KindsAt, Over, Logins
<1>6. RowsThere(new)
  BY <1>1, <1>3 DEF RowsThere
<1>7. faults' \in 0..MaxFaults
  BY <1>4 DEF IInv, SettingsTyped
<1> QED BY <1>3, <1>4, <1>5, <1>6, <1>7, QuietStep

\* Only a platform administrator has the permission to open organisations.
LEMMA GlobalIsPlatform ==
  ASSUME NEW held \in SUBSET Holding, NEW op, op.kind = "create org", Allowed(held, op)
  PROVE  IsPlatformAdmin(held)
<1>1. PICK h \in held : "organizations.manage" \in RolePermissions[h.role]
  BY DEF Allowed, PermissionOf
<1>2. h.role \in Role
  BY DEF Holding
<1>3. /\ RolePermissions["retailer_admin"] = {"stores.manage", "staff.manage", "loyalty_config.write", "api_keys.rotate"}
      /\ RolePermissions["store_manager"] = {"loyalty_config.write"}
      /\ RolePermissions["support_viewer"] = {}
  BY DEF RolePermissions
<1>4. h.role = "platform_admin"
  BY <1>1, <1>2, <1>3 DEF Role
<1> QED BY <1>4 DEF IsPlatformAdmin

LEMMA LoadPrincipalIInv ==
  ASSUME IInv, NEW r \in Request, LoadPrincipal(r), UNCHANGED settings
  PROVE  IInv'
<1>1. call[r] \in CallRow /\ call[r].phase = "load principal" /\ call[r].caller \in User
      /\ call[r].op \in Operation /\ call[r].op.kind \in Kinds \ {"bootstrap"}
  BY RowTyped DEF Decided, KindsAt, LoadPrincipal, At
<1>2. PICK held : held = Active(call[r].caller)
  OBVIOUS
<1>3. held \in SUBSET Holding
  BY <1>1, <1>2, ActiveTyped DEF IInv
<1>4. PICK phase : phase = IF Allowed(held, call[r].op) THEN FirstPhase(call[r].op.kind) ELSE "refused"
  OBVIOUS
<1>5. /\ phase \in {"find user", "load member", "done", "insert org", "insert store", "load store", "refused"}
      /\ call[r].op.kind \in KindsAt(phase)
      /\ phase = "find user" => call[r].op.kind = "add member"
      /\ phase = "insert org" => call[r].op.kind = "create org"
      /\ phase = "done" => call[r].op.kind = "login"
      /\ phase \notin {"refused", "done"} => Allowed(held, call[r].op)
  BY <1>1, <1>4 DEF FirstPhase, KindsAt, Kinds, Saves, Logins
<1> DEFINE new == [call[r] EXCEPT !.held = held, !.phase = phase]
<1>6. /\ new \in CallRow /\ new.phase = phase /\ new.op = call[r].op /\ new.caller = call[r].caller
      /\ new.held = held
  BY <1>1, <1>3, <1>5 DEF CallRow, Phase, Over
<1>7. call' = [call EXCEPT ![r] = new] /\ UNCHANGED <<staffTables, settings>> /\ UNCHANGED faults
  BY <1>2, <1>4 DEF LoadPrincipal, Asks, IInv, DecidedCall, CallRow
<1> HIDE DEF new
<1>8. new \in DecidedCall
  <2>1. CASE phase \in {"done", "refused"}
    BY <2>1, <1>1, <1>6, EndedIsDecided DEF Over
  <2>2. CASE phase = "insert org"
    BY <2>2, <1>1, <1>3, <1>5, <1>6, GlobalIsPlatform DEF DecidedCall, Decided, Over
  <2>3. CASE phase \in {"find user", "load member", "insert store", "load store"}
    <3>1. HasPermission(held, PermissionOf(call[r].op), call[r].op.org, call[r].op.store)
          \/ call[r].op.kind \in {"create org", "login"}
      BY <1>5, <2>3 DEF Allowed
    <3>2. call[r].op.kind # "login"
      BY <1>5, <2>3 DEF KindsAt, Saves
    <3> QED BY <2>3, <1>1, <1>5, <1>6, <3>1, <3>2 DEF DecidedCall, Decided, Over
  <2> QED BY <1>5, <2>1, <2>2, <2>3
<1>9. RowsThere(new)
  BY <1>5, <1>6 DEF RowsThere
<1>10. faults' \in 0..MaxFaults
  BY <1>7 DEF IInv, SettingsTyped
<1> QED BY <1>1, <1>5, <1>6, <1>7, <1>8, <1>9, <1>10, QuietStep DEF Saves

-------------------------------------------------------------------------------
\* Staff users

LEMMA FindUserIInv ==
  ASSUME IInv, NEW r \in Request, FindUser(r), UNCHANGED settings
  PROVE  IInv'
<1>1. /\ call[r] \in CallRow /\ call[r].phase = "find user" /\ call[r].caller \in User
      /\ call[r].op \in Operation /\ call[r].op.kind \in Logins \cup {"add member"}
      /\ call[r].op.kind \notin Logins =>
           HasPermission(call[r].held, PermissionOf(call[r].op), call[r].op.org, call[r].op.store)
      /\ call[r].op.kind = "bootstrap" => call[r].op.org \in places
  <2>1. call[r].phase = "find user"
    BY DEF FindUser, At
  <2>2. call[r].op.kind \in Logins \cup {"add member"}
    BY <2>1, RowTyped DEF Decided, KindsAt
  <2> QED BY <2>1, <2>2, RowTyped DEF Decided, Over, Logins, IInv, RowsFound, RowsThere
<1>2. PICK phase \in {"refused", "create user", "insert member", "load principal", "list members"} :
        /\ Goes(r, phase)
        /\ phase = "create user" /\ call[r].op.kind = "add member" => GrantsInScope(r)
        /\ phase = "insert member" => call[r].op.kind = "add member" /\ GrantsInScope(r)
        /\ phase = "load principal" => call[r].op.kind = "login"
        /\ phase = "list members" => call[r].op.kind = "bootstrap"
        /\ phase \in {"insert member", "list members"} => staff[call[r].op.user] # "none"
  BY <1>1 DEF FindUser, Asks, WithUser, Logins
<1>3. PICK new \in CallRow :
        /\ call' = [call EXCEPT ![r] = new]
        /\ new.phase = phase /\ new.op = call[r].op /\ new.caller = call[r].caller
        /\ phase \notin Over => new.held = call[r].held /\ new.read = call[r].read
  <2>1. phase \in Phase
    BY <1>2 DEF Phase, Over
  <2> QED BY <1>2, <2>1, GoesRow DEF IInv
<1>4. GrantsInScope(r) =>
        /\ OrgAt(call[r].op.place) = call[r].op.org
        /\ call[r].op.role = "platform_admin" => IsPlatformAdmin(call[r].held)
        /\ call[r].op.place \in Store => call[r].op.place \in places
  BY DEF GrantsInScope, Asks
<1>5. new \in DecidedCall
  <2>1. CASE phase = "refused"
    BY <2>1, <1>1, <1>3, EndedIsDecided DEF Over
  <2>2. CASE phase \in {"create user", "insert member", "load principal", "list members"}
    <3>1. call[r].op.kind \in KindsAt(phase)
      BY <2>2, <1>1, <1>2 DEF KindsAt, Logins, Kinds
    <3> QED BY <2>2, <3>1, <1>1, <1>2, <1>3, <1>4 DEF DecidedCall, Decided, Over
  <2> QED BY <1>2, <2>1, <2>2
<1>6. RowsThere(new)
  BY <1>1, <1>2, <1>3, <1>4 DEF RowsThere
<1>7. UNCHANGED <<staffTables, settings>> /\ UNCHANGED faults
  BY DEF FindUser
<1>8. faults' \in 0..MaxFaults
  BY <1>7 DEF IInv, SettingsTyped
<1> QED BY <1>1, <1>2, <1>3, <1>5, <1>6, <1>7, <1>8, QuietStep

\* A user that has been created is never taken away.
LEMMA CreateUserIInv ==
  ASSUME IInv, NEW r \in Request, CreateUser(r), UNCHANGED settings
  PROVE  IInv'
<1>1. /\ call[r] \in CallRow /\ Decided(call[r]) /\ call[r].phase = "create user"
      /\ call[r].caller \in User /\ call[r].op \in Operation
      /\ call[r].op.kind \in Logins \cup {"add member"}
  <2>1. call[r].phase = "create user"
    BY DEF CreateUser, At
  <2>2. call[r].op.kind \in Logins \cup {"add member"}
    BY <2>1, RowTyped DEF Decided, KindsAt
  <2> QED BY <2>1, <2>2, RowTyped DEF Decided
<1>2. call[r].op.user \in User
  BY <1>1, OperationFacts
<1>3. RowsThere(call[r])
  BY DEF IInv, RowsFound
<1>4. PICK phase \in {"find user", "failed", "insert member", "load principal", "list members"} :
        /\ Goes(r, phase)
        /\ phase = "find user" => call[r].op.kind \in Logins
        /\ phase = "insert member" => call[r].op.kind = "add member"
        /\ phase = "load principal" => call[r].op.kind = "login"
        /\ phase = "list members" => call[r].op.kind = "bootstrap"
        /\ phase \in {"insert member", "list members"} => staff' = [staff EXCEPT ![call[r].op.user] = "active"]
  BY <1>1 DEF CreateUser, Asks, WithUser, Logins
<1>5. staff' = [staff EXCEPT ![call[r].op.user] = "active"] \/ staff' = staff
  BY DEF CreateUser, Asks
<1>6. UNCHANGED <<places, member, settings, faults>>
  BY DEF CreateUser
<1>7. PICK new \in CallRow :
        /\ call' = [call EXCEPT ![r] = new]
        /\ new.phase = phase /\ new.op = call[r].op /\ new.caller = call[r].caller
        /\ phase \notin Over => new.held = call[r].held /\ new.read = call[r].read
  BY <1>4, GoesRow DEF IInv, Phase, Over
<1>8. new \in DecidedCall
  <2>1. CASE phase = "failed"
    BY <2>1, <1>1, <1>7, EndedIsDecided DEF Over
  <2>2. CASE phase \in {"find user", "insert member", "load principal", "list members"}
    <3>1. call[r].op.kind \in KindsAt(phase)
      BY <2>2, <1>1, <1>4 DEF KindsAt, Logins, Kinds
    <3> QED BY <2>2, <3>1, <1>1, <1>4, <1>7 DEF DecidedCall, Decided, Over, Logins
  <2> QED BY <1>4, <2>1, <2>2
<1>9. staff \in [User -> Status \cup {"none"}]
  BY DEF IInv, StaffTyped
<1>10. /\ staff' \in [User -> Status \cup {"none"}]
       /\ \A u \in User : staff[u] # "none" => staff'[u] # "none"
  BY <1>2, <1>5, <1>9 DEF Status
<1>11. StaffTyped'
  BY <1>6, <1>10 DEF IInv, StaffTyped
<1>12. RowsThere(new)'
  <2>1. phase \in {"insert member", "list members"} => staff'[call[r].op.user] # "none"
    BY <1>2, <1>4, <1>9
  <2> QED BY <1>1, <1>3, <1>4, <1>6, <1>7, <2>1 DEF RowsThere, Logins
<1> QED BY <1>1, <1>4, <1>6, <1>7, <1>8, <1>10, <1>11, <1>12, StaffWriteStep

-------------------------------------------------------------------------------
\* Memberships

\* A membership is written where its user and its place are, and none is removed.
LEMMA MemberWrite ==
  ASSUME StaffTyped, NEW u \in User, NEW p \in Place, NEW row \in Membership,
         member' = [member EXCEPT ![u][p] = row], UNCHANGED <<places, staff>>,
         staff[u] # "none", p \in places
  PROVE  /\ StaffTyped' /\ places \subseteq places'
         /\ \A v \in User : staff[v] # "none" => staff'[v] # "none"
         /\ \A v \in User, q \in Place : member[v][q] # None => member'[v][q] # None
         /\ member'[u][p] # None
<1>1. row # None
  BY StaffAssumption
<1>2. /\ member' \in [User -> [Place -> Membership \cup {None}]]
      /\ \A v \in User, q \in Place :
           member'[v][q] = IF v = u /\ q = p THEN row ELSE member[v][q]
  BY DEF StaffTyped
<1> QED BY <1>1, <1>2 DEF StaffTyped

\* The steps that write a membership
LEMMA MemberStep ==
  ASSUME IInv, NEW r \in Request, NEW phase \in {"done", "set status"}, Goes(r, phase),
         NEW p \in Place, NEW row \in Membership, call[r].op.user \in User,
         member' = [member EXCEPT ![call[r].op.user][p] = row],
         UNCHANGED <<places, staff, settings, faults>>,
         staff[call[r].op.user] # "none", p \in places,
         call[r].phase \in {"insert member", "set role", "set status", "promote", "grant"},
         phase = "set status" =>
           call[r].phase = "set role" /\ call[r].op.status \in Status /\ call[r].op.place = p
  PROVE  IInv'
<1>1. call[r] \in CallRow /\ Decided(call[r])
  BY RowTyped
<1>2. PICK new \in CallRow :
        /\ call' = [call EXCEPT ![r] = new]
        /\ new.phase = phase /\ new.op = call[r].op /\ new.caller = call[r].caller
        /\ phase \notin Over => new.held = call[r].held /\ new.read = call[r].read
  <2>1. phase \in Phase
    BY DEF Phase, Over
  <2> QED BY <2>1, GoesRow DEF IInv
<1>3. /\ StaffTyped' /\ places \subseteq places'
      /\ \A v \in User : staff[v] # "none" => staff'[v] # "none"
      /\ \A v \in User, q \in Place : member[v][q] # None => member'[v][q] # None
      /\ member'[call[r].op.user][p] # None
  <2>1. PICK u \in User : u = call[r].op.user
    OBVIOUS
  <2> QED BY <2>1, MemberWrite DEF IInv
<1>4. new \in DecidedCall
  <2>1. CASE phase = "done"
    BY <2>1, <1>1, <1>2, EndedIsDecided DEF Over, Decided
  <2>2. CASE phase = "set status"
    <3>1. call[r].op.kind = "change member" /\ call[r].phase = "set role"
      BY <2>2, <1>1 DEF Decided, KindsAt
    <3> QED BY <2>2, <3>1, <1>1, <1>2 DEF DecidedCall, Decided, KindsAt, Over, Logins
  <2> QED BY <2>1, <2>2
<1>5. RowsThere(new)'
  BY <1>2, <1>3 DEF RowsThere
<1>6. new.phase = "done" => new.op.kind \notin Saves
  BY <1>1, <1>2 DEF Decided, KindsAt, Saves
<1> QED BY <1>2, <1>3, <1>4, <1>5, <1>6, StaffWriteStep

\* A request on a membership that writes nothing, or no more
LEMMA MemberQuietStep ==
  ASSUME IInv, NEW r \in Request, NEW phase \in Over, Goes(r, phase),
         UNCHANGED <<staffTables, settings, faults>>,
         call[r].phase \in {"insert member", "load member", "list members", "grant"}
  PROVE  IInv'
<1>1. call[r] \in CallRow /\ Decided(call[r])
  BY RowTyped
<1>2. phase \in Phase
  BY DEF Phase
<1>3. PICK new \in CallRow :
        /\ call' = [call EXCEPT ![r] = new]
        /\ new.phase = phase /\ new.op = call[r].op /\ new.caller = call[r].caller
        /\ phase \notin Over => new.held = call[r].held /\ new.read = call[r].read
  BY <1>2, GoesRow DEF IInv
<1>4. new \in DecidedCall
  BY <1>1, <1>3, EndedIsDecided DEF Decided
<1>5. RowsThere(new)
  BY <1>3 DEF RowsThere, Over
<1>6. new.op.kind \notin Saves /\ new.phase \notin {"upsert", "commit config"}
  BY <1>1, <1>3 DEF Decided, KindsAt, Saves, Over
<1>7. faults' \in 0..MaxFaults
  BY DEF IInv, SettingsTyped
<1> QED BY <1>3, <1>4, <1>5, <1>6, <1>7, QuietStep

LEMMA InsertMemberIInv ==
  ASSUME IInv, NEW r \in Request, InsertMember(r), UNCHANGED settings
  PROVE  IInv'
<1>1. call[r].phase = "insert member" /\ UNCHANGED <<places, staff, faults>>
  BY DEF InsertMember, At
<1>2. /\ call[r].op.kind = "add member" /\ call[r].op \in Operation
      /\ OrgAt(call[r].op.place) = call[r].op.org
  BY <1>1, RowTyped DEF Decided, KindsAt
<1>3. /\ staff[call[r].op.user] # "none"
      /\ call[r].op.place \in Store => call[r].op.place \in places
  BY <1>1, <1>2 DEF IInv, RowsFound, RowsThere
<1>4. call[r].op.user \in User /\ call[r].op.place \in Place /\ call[r].op.role \in Role
  BY <1>2, OperationFacts
<1>5. CASE call[r].op.org \in places /\ member[call[r].op.user][call[r].op.place] = None
  <2>1. PICK row : row = [role |-> call[r].op.role, status |-> "active"]
    OBVIOUS
  <2>2. PICK p : p = call[r].op.place
    OBVIOUS
  <2>3. row \in Membership
    BY <1>4, <2>1 DEF Membership, Status
  <2>4. member' = [member EXCEPT ![call[r].op.user][p] = row] /\ Goes(r, "done")
    BY <1>5, <2>1, <2>2 DEF InsertMember, Asks
  <2>5. p \in Place /\ p \in places
    BY <1>2, <1>3, <1>4, <1>5, <2>2 DEF OrgAt, Place
  <2> QED BY <1>1, <1>3, <1>4, <2>3, <2>4, <2>5, MemberStep
<1>6. CASE ~(call[r].op.org \in places /\ member[call[r].op.user][call[r].op.place] = None)
  <2>1. PICK phase \in {"refused", "failed"} : Goes(r, phase)
    BY <1>6 DEF InsertMember, Asks
  <2>2. UNCHANGED <<staffTables, faults>>
    BY <1>1, <1>6 DEF InsertMember, Asks, staffTables
  <2> QED BY <1>1, <2>1, <2>2, MemberQuietStep DEF Over
<1> QED BY <1>5, <1>6

LEMMA LoadMemberIInv ==
  ASSUME IInv, NEW r \in Request, LoadMember(r), UNCHANGED settings
  PROVE  IInv'
<1>1. call[r].phase = "load member" /\ UNCHANGED <<staffTables, faults>>
  BY DEF LoadMember, At
<1>2. call[r] \in CallRow /\ call[r].op.kind = "change member" /\ call[r].op \in Operation /\ Decided(call[r])
  BY <1>1, RowTyped DEF Decided, KindsAt
<1>3. /\ call[r].op.user \in User /\ call[r].op.place \in Place
      /\ call[r].op.role \in Role \cup {None} /\ call[r].op.status \in Status \cup {None}
      /\ call[r].op.role # None \/ call[r].op.status # None
  BY <1>2, OperationFacts
<1>4. PICK row : row = member[call[r].op.user][call[r].op.place]
  OBVIOUS
<1>5. CASE row # None /\ MayChange(r, row)
  <2>1. row \in Membership
    BY <1>3, <1>4, <1>5 DEF IInv, StaffTyped
  <2>2. PICK phase \in {"set role", "set status"} :
          /\ Reads(r, phase, row)
          /\ phase = "set role" => call[r].op.role \in Role
          /\ phase = "set status" => call[r].op.role = None
    BY <1>3, <1>4, <1>5 DEF LoadMember, Asks
  <2>3. PICK new : new = [call[r] EXCEPT !.phase = phase, !.read = row]
    OBVIOUS
  <2>8. /\ new \in CallRow /\ new.phase = phase /\ new.op = call[r].op
        /\ new.caller = call[r].caller /\ new.held = call[r].held /\ new.read = row
    <3>1. phase \in Phase
      BY DEF Phase
    <3>2. row \in ReadRow
      BY <2>1 DEF ReadRow
    <3> QED BY <1>2, <2>3, <3>1, <3>2 DEF CallRow
  <2>9. call' = [call EXCEPT ![r] = new]
    BY <2>2, <2>3 DEF Reads
  <2>4. /\ OrgAt(call[r].op.place) = call[r].op.org /\ call[r].caller # call[r].op.user
        /\ call[r].op.role = "platform_admin" => IsPlatformAdmin(call[r].held)
    BY <1>5 DEF MayChange, NotOwn, Asks
  <2>5. new \in DecidedCall
    BY <1>1, <1>2, <1>3, <2>2, <2>8, <2>4 DEF DecidedCall, Decided, KindsAt, Over, Logins
  <2>6. RowsThere(new)
    BY <1>4, <1>5, <2>2, <2>8 DEF RowsThere
  <2>7. faults' \in 0..MaxFaults
    BY <1>1 DEF IInv, SettingsTyped
  <2> QED BY <1>1, <2>2, <2>8, <2>9, <2>5, <2>6, <2>7, QuietStep
<1>6. CASE ~(row # None /\ MayChange(r, row))
  <2>1. Goes(r, "refused")
    BY <1>4, <1>6 DEF LoadMember, Asks
  <2> QED BY <1>1, <2>1, MemberQuietStep DEF Over
<1> QED BY <1>5, <1>6

\* The PATCH of a membership found it, and it is still there.
LEMMA SetRoleIInv ==
  ASSUME IInv, NEW r \in Request, SetRole(r), UNCHANGED settings
  PROVE  IInv'
<1>1. call[r].phase = "set role" /\ UNCHANGED <<places, staff, faults>>
  BY DEF SetRole, At
<1>2. /\ call[r].op.kind = "change member" /\ call[r].op \in Operation
      /\ call[r].op.role \in Role
  BY <1>1, RowTyped DEF Decided, KindsAt
<1>3. /\ call[r].op.user \in User /\ call[r].op.place \in Place
      /\ call[r].op.status \in Status \cup {None}
  BY <1>2, OperationFacts
<1>4. PICK p \in Place : p = call[r].op.place
  BY <1>3
<1>5. member[call[r].op.user][p] # None
  BY <1>1, <1>4 DEF IInv, RowsFound, RowsThere
<1>6. member[call[r].op.user][p] \in Membership /\ staff[call[r].op.user] # "none" /\ p \in places
  BY <1>3, <1>5 DEF IInv, StaffTyped
<1>7. PICK row : row = [member[call[r].op.user][p] EXCEPT !.role = call[r].op.role]
  OBVIOUS
<1>8. row \in Membership
  BY <1>2, <1>6, <1>7 DEF Membership
<1>9. member' = [member EXCEPT ![call[r].op.user][p] = row]
  BY <1>4, <1>7 DEF SetRole, Asks
<1>10. PICK phase \in {"done", "set status"} :
         Goes(r, phase) /\ (phase = "set status" => call[r].op.status \in Status)
  BY <1>3 DEF SetRole, Asks, AfterRole
<1> QED BY <1>1, <1>3, <1>4, <1>6, <1>8, <1>9, <1>10, MemberStep

LEMMA SetStatusIInv ==
  ASSUME IInv, NEW r \in Request, SetStatus(r), UNCHANGED settings
  PROVE  IInv'
<1>1. call[r].phase = "set status" /\ UNCHANGED <<places, staff, faults>>
  BY DEF SetStatus, At
<1>2. /\ call[r].op.kind = "change member" /\ call[r].op \in Operation
      /\ call[r].op.status \in Status
  BY <1>1, RowTyped DEF Decided, KindsAt
<1>3. call[r].op.user \in User /\ call[r].op.place \in Place
  BY <1>2, OperationFacts
<1>4. PICK p \in Place : p = call[r].op.place
  BY <1>3
<1>5. member[call[r].op.user][p] # None
  BY <1>1, <1>4 DEF IInv, RowsFound, RowsThere
<1>6. member[call[r].op.user][p] \in Membership /\ staff[call[r].op.user] # "none" /\ p \in places
  BY <1>3, <1>5 DEF IInv, StaffTyped
<1>7. PICK row : row = [member[call[r].op.user][p] EXCEPT !.status = call[r].op.status]
  OBVIOUS
<1>8. row \in Membership
  BY <1>2, <1>6, <1>7 DEF Membership
<1>9. member' = [member EXCEPT ![call[r].op.user][p] = row] /\ Goes(r, "done")
  BY <1>4, <1>7 DEF SetStatus, Asks
<1> QED BY <1>1, <1>3, <1>4, <1>6, <1>8, <1>9, MemberStep

\* What bootstrap reads and writes is the administrator's row of an organisation there is.
LEMMA BootstrapFacts ==
  ASSUME IInv, NEW r \in Request, call[r].phase \in {"list members", "promote", "grant"}
  PROVE  /\ call[r] \in CallRow /\ call[r].op \in Operation /\ call[r].op.kind = "bootstrap"
         /\ call[r].op.user \in User /\ call[r].op.org \in Org /\ call[r].op.org \in places
         /\ staff[call[r].op.user] # "none"
         /\ call[r].phase = "promote" => member[call[r].op.user][call[r].op.org] # None
<1>1. call[r] \in CallRow /\ call[r].op.kind = "bootstrap" /\ call[r].op \in Operation
  BY RowTyped DEF Decided, KindsAt
<1>2. RowsThere(call[r])
  BY DEF IInv, RowsFound
<1> QED BY <1>1, <1>2, OperationFacts DEF RowsThere, Logins

LEMMA PromoteIInv ==
  ASSUME IInv, NEW r \in Request, Promote(r), UNCHANGED settings
  PROVE  IInv'
<1>1. call[r].phase = "promote" /\ UNCHANGED <<places, staff, faults>>
  BY DEF Promote, At
<1>2. PICK p \in Place : p = call[r].op.org
  BY <1>1, BootstrapFacts DEF Place
<1>3. call[r].op.user \in User /\ member[call[r].op.user][p] # None
  BY <1>1, <1>2, BootstrapFacts
<1>4. member[call[r].op.user][p] \in Membership /\ staff[call[r].op.user] # "none" /\ p \in places
  BY <1>3 DEF IInv, StaffTyped
<1>5. PICK row : row = [member[call[r].op.user][p] EXCEPT !.role = "platform_admin"]
  OBVIOUS
<1>6. row \in Membership
  BY <1>4, <1>5 DEF Membership, Role
<1>7. member' = [member EXCEPT ![call[r].op.user][p] = row] /\ Goes(r, "done")
  BY <1>2, <1>5 DEF Promote, Asks
<1> QED BY <1>1, <1>3, <1>4, <1>6, <1>7, MemberStep

LEMMA GrantIInv ==
  ASSUME IInv, NEW r \in Request, Grant(r), UNCHANGED settings
  PROVE  IInv'
<1>1. call[r].phase = "grant" /\ UNCHANGED <<places, staff, faults>>
  BY DEF Grant, At
<1>2. PICK p \in Place : p = call[r].op.org
  BY <1>1, BootstrapFacts DEF Place
<1>3. call[r].op.user \in User /\ staff[call[r].op.user] # "none" /\ p \in places
  BY <1>1, <1>2, BootstrapFacts
<1>4. CASE member[call[r].op.user][p] = None
  <2>1. PICK row : row = [role |-> "platform_admin", status |-> "active"]
    OBVIOUS
  <2>2. row \in Membership
    BY <2>1 DEF Membership, Role, Status
  <2>3. member' = [member EXCEPT ![call[r].op.user][p] = row] /\ Goes(r, "done")
    BY <1>2, <1>4, <2>1 DEF Grant, Asks
  <2> QED BY <1>1, <1>3, <2>2, <2>3, MemberStep
<1>5. CASE member[call[r].op.user][p] # None
  <2>1. Goes(r, "list members") /\ UNCHANGED staffTables
    BY <1>1, <1>2, <1>5 DEF Grant, Asks, staffTables
  <2>2. call[r] \in CallRow /\ Decided(call[r]) /\ RowsThere(call[r])
    BY RowTyped DEF IInv, RowsFound
  <2>3. PICK new \in CallRow :
          /\ call' = [call EXCEPT ![r] = new]
          /\ new.phase = "list members" /\ new.op = call[r].op /\ new.caller = call[r].caller
          /\ "list members" \notin Over => new.held = call[r].held /\ new.read = call[r].read
    <3>1. "list members" \in Phase
      BY DEF Phase
    <3> QED BY <2>1, <3>1, GoesRow DEF IInv
  <2>4. call[r].op.kind = "bootstrap"
    BY <1>1, BootstrapFacts
  <2>5. new \in DecidedCall
    BY <1>1, <2>2, <2>3, <2>4 DEF DecidedCall, Decided, KindsAt, Over, Logins
  <2>6. RowsThere(new)
    BY <1>1, <2>2, <2>3 DEF RowsThere
  <2>7. faults' \in 0..MaxFaults
    BY <1>1 DEF IInv, SettingsTyped
  <2> QED BY <1>1, <2>1, <2>3, <2>5, <2>6, <2>7, QuietStep
<1> QED BY <1>4, <1>5

LEMMA ListMembersIInv ==
  ASSUME IInv, NEW r \in Request, ListMembers(r), UNCHANGED settings
  PROVE  IInv'
<1>1. call[r].phase = "list members" /\ UNCHANGED <<staffTables, faults>>
  BY DEF ListMembers, At
<1>2. call[r] \in CallRow /\ Decided(call[r]) /\ RowsThere(call[r]) /\ call[r].op.kind = "bootstrap"
  BY <1>1, RowTyped, BootstrapFacts DEF IInv, RowsFound
<1>3. PICK phase \in {"grant", "promote", "done"} :
        Goes(r, phase) /\ (phase = "promote" => member[call[r].op.user][call[r].op.org] # None)
  BY DEF ListMembers, Asks
<1>4. PICK new \in CallRow :
        /\ call' = [call EXCEPT ![r] = new]
        /\ new.phase = phase /\ new.op = call[r].op /\ new.caller = call[r].caller
        /\ phase \notin Over => new.held = call[r].held /\ new.read = call[r].read
  <2>1. phase \in Phase
    BY DEF Phase, Over
  <2> QED BY <1>3, <2>1, GoesRow DEF IInv
<1>5. new \in DecidedCall
  <2>1. CASE phase = "done"
    BY <2>1, <1>1, <1>2, <1>4, EndedIsDecided DEF Over, Decided
  <2>2. CASE phase \in {"grant", "promote"}
    BY <2>2, <1>1, <1>2, <1>4 DEF DecidedCall, Decided, KindsAt, Over, Logins
  <2> QED BY <2>1, <2>2
<1>6. RowsThere(new)
  BY <1>1, <1>2, <1>3, <1>4 DEF RowsThere
<1>7. faults' \in 0..MaxFaults
  BY <1>1 DEF IInv, SettingsTyped
<1> QED BY <1>1, <1>2, <1>4, <1>5, <1>6, <1>7, QuietStep DEF Saves

LEMMA StaffStepIInv ==
  ASSUME IInv, NEW r \in Request, StaffStep(r), UNCHANGED settings
  PROVE  IInv'
BY AuthenticateIInv, BeginWithUserIInv, LoadPrincipalIInv, FindUserIInv, CreateUserIInv,
   InsertMemberIInv, LoadMemberIInv, SetRoleIInv, SetStatusIInv, ListMembersIInv, PromoteIInv,
   GrantIInv DEF StaffStep

LEMMA FaultTyped ==
  ASSUME SettingsTyped, Fault
  PROVE  faults' \in 0..MaxFaults
BY StaffAssumption DEF SettingsTyped, Fault

LEMMA DisableUserIInv ==
  ASSUME IInv, NEW u \in User, DisableUser(u), UNCHANGED settings
  PROVE  IInv'
<1>1. UNCHANGED <<places, member, call, config, history, writer, profile, key>>
      /\ staff[u] = "active" /\ staff' = [staff EXCEPT ![u] = "disabled"]
  BY DEF DisableUser, settings, configVars
<1>2. faults' \in 0..MaxFaults
  BY FaultTyped DEF DisableUser, IInv
<1>3. staff \in [User -> Status \cup {"none"}]
  BY DEF IInv, StaffTyped
<1>4. /\ staff' \in [User -> Status \cup {"none"}]
      /\ \A v \in User : staff[v] # "none" => staff'[v] # "none"
  BY <1>1, <1>3 DEF Status
<1>5. StaffTyped'
  BY <1>1, <1>4 DEF IInv, StaffTyped
<1>6. RowsFound'
  <2> SUFFICES ASSUME NEW q \in Request
               PROVE  RowsThere(call[q])'
    BY DEF RowsFound
  <2>1. call[q] \in DecidedCall /\ RowsThere(call[q])
    BY DEF IInv, RowsFound
  <2> QED BY <1>1, <1>4, <2>1, MemberPhases DEF RowsThere
<1>7. SettingsTyped' /\ CodesDiffer'
  BY <1>1, <1>2 DEF IInv, SettingsTyped, CodesDiffer
<1>8. SavesAreSerial'
  BY <1>1 DEF IInv, SavesAreSerial
<1>9. EntriesAreExpected'
  BY <1>1 DEF IInv, EntriesAreExpected, SaversAreExpected, FirstsAreRecorded
<1>10. VersionsAreHistory'
  BY <1>1 DEF IInv, VersionsAreHistory, At, Asks
<1> QED BY <1>1, <1>5, <1>6, <1>7, <1>8, <1>9, <1>10 DEF IInv

-------------------------------------------------------------------------------
\* Stores and keys

\* The last step of a request on an organisation, a store or a key
LEMMA SettingStep ==
  ASSUME IInv, NEW r \in Request, NEW phase \in Over, Goes(r, phase),
         call[r].phase \in {"insert org", "insert store", "update store", "insert key", "revoke key"},
         UNCHANGED <<staff, member, faults, configVars>>,
         StaffTyped', places \subseteq places',
         profile' \in [Store -> ProfileRow], key' \in [Key -> KeyRow], CodesDiffer'
  PROVE  IInv'
<1>1. call[r] \in CallRow /\ Decided(call[r])
  BY RowTyped
<1>2. phase \in Phase
  BY DEF Phase
<1>3. PICK new \in CallRow :
        /\ call' = [call EXCEPT ![r] = new]
        /\ new.phase = phase /\ new.op = call[r].op /\ new.caller = call[r].caller
        /\ phase \notin Over => new.held = call[r].held /\ new.read = call[r].read
  BY <1>2, GoesRow DEF IInv
<1>4. new \in DecidedCall
  BY <1>1, <1>3, EndedIsDecided DEF Decided
<1>5. RowsThere(new)'
  BY <1>3 DEF RowsThere, Over
<1>6. new.op.kind \notin Saves /\ new.phase \notin {"upsert", "commit config"}
  BY <1>1, <1>3 DEF Decided, KindsAt, Saves, Over
<1>7. UNCHANGED <<staff, member, faults, config, history, writer>>
  BY DEF configVars
<1>8. RowsFound'
  BY <1>3, <1>5, <1>7, RowsKept DEF IInv
<1>9. SavesAreSerial' /\ EntriesAreExpected' /\ VersionsAreHistory'
  BY <1>3, <1>6, OthersSerial
<1>10. call' \in [Request -> DecidedCall]
  BY <1>3, <1>4 DEF IInv
<1>11. SettingsTyped'
  BY <1>7 DEF IInv, SettingsTyped
<1> QED BY <1>8, <1>9, <1>10, <1>11 DEF IInv

LEMMA InsertOrgIInv ==
  ASSUME IInv, NEW r \in Request, InsertOrg(r)
  PROVE  IInv'
<1>1. /\ call[r].phase = "insert org" /\ Goes(r, "done") /\ places' = places \cup {call[r].op.org}
      /\ UNCHANGED <<staff, member, faults, configVars, profile, key>>
  BY DEF InsertOrg, At, Asks, settings
<1>2. call[r].op \in Operation /\ call[r].op.kind = "create org"
  BY <1>1, RowTyped DEF Decided, KindsAt
<1>3. call[r].op.org \in Org
  BY <1>2, OperationFacts DEF Logins
<1>4. StaffTyped'
  BY <1>1, <1>3 DEF IInv, StaffTyped, Place, OrgAt
<1>5. profile' \in [Store -> ProfileRow] /\ key' \in [Key -> KeyRow] /\ CodesDiffer'
  BY <1>1 DEF IInv, SettingsTyped, CodesDiffer
<1> QED BY <1>1, <1>4, <1>5, SettingStep DEF Over

LEMMA AppliedTyped ==
  ASSUME NEW op \in Operation, op.kind \in {"create store", "edit store"}, NEW row \in ProfileRow
  PROVE  Applied(op, row) \in ProfileRow
BY OperationFacts DEF Applied, ProfileRow

\* The row of a store is written if its code is free among the stores of its organisation.
LEMMA ProfileWrite ==
  ASSUME CodesDiffer, profile \in [Store -> ProfileRow], NEW s \in Store, NEW row \in ProfileRow,
         profile' = [profile EXCEPT ![s] = row], ~CodeTaken(s, row.code)
  PROVE  profile' \in [Store -> ProfileRow] /\ CodesDiffer'
<1>1. \A t \in Store \ {s} : row.code # None /\ OrgOf[t] = OrgOf[s] => profile[t].code # row.code
  BY DEF CodeTaken
<1>2. profile'[s] = row /\ \A t \in Store \ {s} : profile'[t] = profile[t]
  OBVIOUS
<1> QED BY <1>1, <1>2 DEF CodesDiffer

LEMMA InsertStoreIInv ==
  ASSUME IInv, NEW r \in Request, InsertStore(r)
  PROVE  IInv'
<1>1. call[r].phase = "insert store" /\ UNCHANGED <<staff, member, faults, configVars, key>>
  BY DEF InsertStore, At
<1>2. call[r].op \in Operation /\ call[r].op.kind = "create store"
  BY <1>1, RowTyped DEF Decided, KindsAt
<1>3. call[r].op.store \in Store /\ OrgOf[call[r].op.store] = call[r].op.org
  BY <1>2, OperationFacts
<1>4. PICK row : row = Applied(call[r].op, NoProfile)
  OBVIOUS
<1>5. row \in ProfileRow
  <2>1. NoProfile \in ProfileRow
    BY DEF NoProfile, ProfileRow
  <2> QED BY <2>1, <1>2, <1>4, AppliedTyped
<1>6. key' \in [Key -> KeyRow]
  BY <1>1 DEF IInv, SettingsTyped
<1>7. PICK phase \in Over : Goes(r, phase)
  BY DEF InsertStore, Over
<1>8. CASE call[r].op.org \in places /\ ~CodeTaken(call[r].op.store, row.code)
  <2>1. /\ places' = places \cup {call[r].op.store}
        /\ profile' = [profile EXCEPT ![call[r].op.store] = row]
    BY <1>4, <1>8 DEF InsertStore, Asks
  <2>2. StaffTyped'
    BY <1>1, <1>3, <1>8, <2>1, StaffAssumption DEF IInv, StaffTyped, Place, OrgAt
  <2>3. profile' \in [Store -> ProfileRow] /\ CodesDiffer'
    BY <1>3, <1>5, <1>8, <2>1, ProfileWrite DEF IInv, SettingsTyped
  <2> QED BY <1>1, <1>6, <1>7, <2>1, <2>2, <2>3, SettingStep
<1>9. CASE ~(call[r].op.org \in places /\ ~CodeTaken(call[r].op.store, row.code))
  <2>1. UNCHANGED <<places, profile>>
    BY <1>4, <1>9 DEF InsertStore, Asks
  <2>2. StaffTyped' /\ profile' \in [Store -> ProfileRow] /\ CodesDiffer'
    BY <1>1, <2>1 DEF IInv, StaffTyped, SettingsTyped, CodesDiffer
  <2> QED BY <1>1, <1>6, <1>7, <2>1, <2>2, SettingStep
<1> QED BY <1>8, <1>9

LEMMA UpdateStoreIInv ==
  ASSUME IInv, NEW r \in Request, UpdateStore(r)
  PROVE  IInv'
<1>1. call[r].phase = "update store" /\ UNCHANGED <<staffTables, faults, configVars, key>>
  BY DEF UpdateStore, At
<1>2. call[r].op \in Operation /\ call[r].op.kind = "edit store" /\ call[r].read \in ProfileRow
  BY <1>1, RowTyped DEF Decided, KindsAt
<1>3. call[r].op.store \in Store
  BY <1>2, OperationFacts
<1>4. PICK row : row = Applied(call[r].op, call[r].read)
  OBVIOUS
<1>5. row \in ProfileRow
  BY <1>2, <1>4, AppliedTyped
<1>6. key' \in [Key -> KeyRow] /\ StaffTyped' /\ UNCHANGED <<places, staff, member>>
  BY <1>1 DEF IInv, SettingsTyped, StaffTyped, staffTables
<1>7. PICK phase \in Over :
        /\ Goes(r, phase)
        /\ \/ ~CodeTaken(call[r].op.store, row.code) /\ profile' = [profile EXCEPT ![call[r].op.store] = row]
           \/ UNCHANGED profile
  BY <1>4 DEF UpdateStore, Over, Asks
<1>8. profile' \in [Store -> ProfileRow] /\ CodesDiffer'
  <2>1. CASE ~CodeTaken(call[r].op.store, row.code) /\ profile' = [profile EXCEPT ![call[r].op.store] = row]
    BY <1>3, <1>5, <2>1, ProfileWrite DEF IInv, SettingsTyped
  <2>2. CASE UNCHANGED profile
    BY <2>2 DEF IInv, SettingsTyped, CodesDiffer
  <2> QED BY <1>7, <2>1, <2>2
<1> QED BY <1>1, <1>6, <1>7, <1>8, SettingStep

LEMMA KeyIInv ==
  ASSUME IInv, NEW r \in Request, InsertKey(r) \/ RevokeKey(r)
  PROVE  IInv'
<1>1. call[r].phase \in {"insert key", "revoke key"} /\ UNCHANGED <<staffTables, faults, configVars, profile>>
  BY DEF InsertKey, RevokeKey, At
<1>2. call[r].op \in Operation /\ call[r].op.kind \in {"create key", "revoke key"}
  BY <1>1, RowTyped DEF Decided, KindsAt
<1>3. call[r].op.store \in Store /\ call[r].op.key \in Key
  BY <1>2, OperationFacts
<1>4. PICK phase \in Over :
        /\ Goes(r, phase)
        /\ \/ key' = [key EXCEPT ![call[r].op.key].store = call[r].op.store]
           \/ key' = [key EXCEPT ![call[r].op.key].revoked = TRUE]
           \/ UNCHANGED key
  BY DEF InsertKey, RevokeKey, Over, Asks
<1>5. key' \in [Key -> KeyRow]
  <2>1. key \in [Key -> KeyRow]
    BY DEF IInv, SettingsTyped
  <2> QED BY <1>3, <1>4, <2>1 DEF KeyRow
<1>6. /\ StaffTyped' /\ UNCHANGED <<places, staff, member>>
      /\ profile' \in [Store -> ProfileRow] /\ CodesDiffer'
  BY <1>1 DEF IInv, SettingsTyped, StaffTyped, CodesDiffer, staffTables
<1> QED BY <1>1, <1>4, <1>5, <1>6, SettingStep

-------------------------------------------------------------------------------
\* Configurations

LEMMA LoadStoreIInv ==
  ASSUME IInv, NEW r \in Request, LoadStore(r)
  PROVE  IInv'
<1>1. call[r].phase = "load store" /\ UNCHANGED <<staffTables, faults, settings>>
  BY DEF LoadStore, At
<1>2. /\ call[r] \in CallRow /\ Decided(call[r]) /\ call[r].op \in Operation
      /\ call[r].op.kind \in Saves \cup {"edit store", "create key", "revoke key"}
  BY <1>1, RowTyped DEF Decided, KindsAt
<1>3. call[r].op.store \in Store
  BY <1>2, OperationFacts
<1>4. faults' \in 0..MaxFaults
  BY <1>1 DEF IInv, SettingsTyped
<1>5. CASE call[r].op.store \in places /\ StoreInOrg(call[r].op)
  <2>1. PICK row : row = profile[call[r].op.store]
    OBVIOUS
  <2>2. PICK phase : phase = AfterStore(call[r].op.kind)
    OBVIOUS
  <2>3. /\ phase \in {"lock config", "read history", "update store", "insert key", "revoke key"}
        /\ call[r].op.kind \in KindsAt(phase)
        /\ phase = "lock config" => call[r].op.kind = "save config"
    BY <1>2, <2>2 DEF AfterStore, KindsAt, Saves
  <2>4. row \in ProfileRow
    BY <1>3, <2>1 DEF IInv, SettingsTyped
  <2>5. PICK new : new = [call[r] EXCEPT !.phase = phase, !.read = row]
    OBVIOUS
  <2>6. /\ new \in CallRow /\ new.phase = phase /\ new.op = call[r].op
        /\ new.caller = call[r].caller /\ new.held = call[r].held /\ new.read = row
    <3>1. phase \in Phase
      BY <2>3 DEF Phase
    <3>2. row \in ReadRow
      BY <2>4 DEF ReadRow
    <3> QED BY <1>2, <2>5, <3>1, <3>2 DEF CallRow
  <2>7. call' = [call EXCEPT ![r] = new]
    BY <1>5, <2>1, <2>2, <2>5 DEF LoadStore, Reads, Asks
  <2>8. OrgOf[call[r].op.store] = call[r].op.org
    BY <1>5 DEF StoreInOrg
  <2>9. new \in DecidedCall
    BY <1>1, <1>2, <2>3, <2>4, <2>6, <2>8 DEF DecidedCall, Decided, Over, Logins, Saves
  <2>10. RowsThere(new)
    BY <2>3, <2>6 DEF RowsThere
  <2> QED BY <1>1, <1>4, <2>3, <2>6, <2>7, <2>9, <2>10, QuietStep
<1>6. CASE ~(call[r].op.store \in places /\ StoreInOrg(call[r].op))
  <2>1. Goes(r, "refused")
    BY <1>6 DEF LoadStore, Asks
  <2>2. PICK new \in CallRow :
          /\ call' = [call EXCEPT ![r] = new]
          /\ new.phase = "refused" /\ new.op = call[r].op /\ new.caller = call[r].caller
          /\ "refused" \notin Over => new.held = call[r].held /\ new.read = call[r].read
    <3>1. "refused" \in Phase
      BY DEF Phase, Over
    <3> QED BY <2>1, <3>1, GoesRow DEF IInv
  <2>3. new \in DecidedCall
    BY <1>1, <1>2, <2>2, EndedIsDecided DEF Over, Decided
  <2>4. RowsThere(new)
    BY <2>2 DEF RowsThere
  <2> QED BY <1>1, <1>4, <2>2, <2>3, <2>4, QuietStep
<1> QED BY <1>5, <1>6

LEMMA ReadHistoryIInv ==
  ASSUME IInv, NEW r \in Request, ReadHistory(r)
  PROVE  IInv'
<1>1. call[r].phase = "read history" /\ UNCHANGED <<staffTables, faults, settings>>
  BY DEF ReadHistory, At
<1>2. /\ call[r] \in CallRow /\ Decided(call[r]) /\ call[r].op \in Operation
      /\ call[r].op.kind = "roll back"
  BY <1>1, RowTyped DEF Decided, KindsAt
<1>3. call[r].op.store \in Store /\ call[r].op.version \in Versions
  BY <1>2, OperationFacts DEF Saves
<1>4. faults' \in 0..MaxFaults
  BY <1>1 DEF IInv, SettingsTyped
<1>5. PICK entry : entry = history[call[r].op.store][call[r].op.version]
  OBVIOUS
<1>6. CASE entry # None
  <2>1. entry \in Entry
    BY <1>3, <1>5, <1>6 DEF IInv, SettingsTyped
  <2>2. PICK work : work = Work(entry.values, 0)
    OBVIOUS
  <2>3. work \in WorkRow
    BY <2>1, <2>2, AdministrationAssumption DEF Work, WorkRow, Entry
  <2>4. PICK new : new = [call[r] EXCEPT !.phase = "lock config", !.read = work]
    OBVIOUS
  <2>5. /\ new \in CallRow /\ new.phase = "lock config" /\ new.op = call[r].op
        /\ new.caller = call[r].caller /\ new.held = call[r].held /\ new.read = work
    <3>1. "lock config" \in Phase
      BY DEF Phase
    <3>2. work \in ReadRow
      BY <2>3 DEF ReadRow
    <3> QED BY <1>2, <2>4, <3>1, <3>2 DEF CallRow
  <2>6. call' = [call EXCEPT ![r] = new]
    BY <1>5, <1>6, <2>2, <2>4 DEF ReadHistory, Reads, Asks
  <2>7. new \in DecidedCall
    BY <1>1, <1>2, <2>3, <2>5 DEF DecidedCall, Decided, KindsAt, Over, Logins, Saves
  <2>8. RowsThere(new)
    BY <2>5 DEF RowsThere
  <2> QED BY <1>1, <1>4, <2>5, <2>6, <2>7, <2>8, QuietStep
<1>7. CASE entry = None
  <2>1. Goes(r, "refused")
    BY <1>5, <1>7 DEF ReadHistory, Asks
  <2>2. PICK new \in CallRow :
          /\ call' = [call EXCEPT ![r] = new]
          /\ new.phase = "refused" /\ new.op = call[r].op /\ new.caller = call[r].caller
          /\ "refused" \notin Over => new.held = call[r].held /\ new.read = call[r].read
    <3>1. "refused" \in Phase
      BY DEF Phase, Over
    <3> QED BY <2>1, <3>1, GoesRow DEF IInv
  <2>3. new \in DecidedCall
    BY <1>1, <1>2, <2>2, EndedIsDecided DEF Over, Decided
  <2>4. RowsThere(new)
    BY <2>2 DEF RowsThere
  <2> QED BY <1>1, <1>4, <2>2, <2>3, <2>4, QuietStep
<1> QED BY <1>6, <1>7

\* What a step of Upsert leaves for the other parts of the invariant
LEMMA UpsertStep ==
  ASSUME IInv, NEW r \in Request, NEW new \in DecidedCall,
         call' = [call EXCEPT ![r] = new], UNCHANGED <<staffTables, profile, key>>,
         faults' \in 0..MaxFaults, RowsThere(new),
         config' \in [Store -> ConfigRow], history' \in [Store -> [Versions -> Entry \cup {None}]],
         writer' \in [Store -> Request \cup {None}],
         SavesAreSerial', EntriesAreExpected', VersionsAreHistory'
  PROVE  IInv'
<1>1. UNCHANGED <<places, staff, member, profile, key>>
  BY DEF staffTables
<1>2. StaffTyped' /\ CodesDiffer'
  BY <1>1 DEF IInv, StaffTyped, CodesDiffer
<1>3. SettingsTyped'
  BY <1>1 DEF IInv, SettingsTyped
<1>4. RowsThere(new)'
  BY <1>1 DEF RowsThere
<1>5. RowsFound'
  BY <1>1, <1>4, RowsKept DEF IInv
<1>6. call' \in [Request -> DecidedCall]
  BY DEF IInv
<1> QED BY <1>2, <1>3, <1>5, <1>6 DEF IInv

\* A store's version is a number the history has room for.
LEMMA VersionTyped ==
  ASSUME SettingsTyped, NEW s \in Store
  PROVE  config[s].version \in 0..MaxVersions /\ config[s] \in ConfigRow
<1>1. config[s] \in ConfigRow
  BY DEF SettingsTyped
<1> QED BY <1>1, AdministrationAssumption DEF ConfigRow, NoConfig, Versions

\* A request in Upsert saves a configuration of a store of its organisation.
LEMMA UpsertPhases ==
  ASSUME IInv, NEW r \in Request, call[r].phase \in {"lock config", "upsert", "commit config"}
  PROVE  /\ call[r] \in CallRow /\ Decided(call[r]) /\ call[r].op \in Operation
         /\ call[r].op.kind \in Saves /\ call[r].op.store \in Store /\ r # None
<1>1. call[r] \in CallRow /\ Decided(call[r]) /\ call[r].op \in Operation /\ call[r].op.kind \in Saves
  BY RowTyped DEF Decided, KindsAt
<1>2. call[r].op.store \in Store
  BY <1>1, OperationFacts
<1> QED BY <1>1, <1>2, AdministrationAssumption

LEMMA LockConfigIInv ==
  ASSUME IInv, NEW r \in Request, LockConfig(r)
  PROVE  IInv'
<1>1. call[r].phase = "lock config" /\ UNCHANGED <<staffTables, faults, config, history, profile, key>>
  BY DEF LockConfig, At
<1>2. /\ call[r] \in CallRow /\ Decided(call[r]) /\ call[r].op \in Operation
      /\ call[r].op.kind \in Saves /\ r # None
  BY <1>1, UpsertPhases
<1>3. PICK s \in Store : s = call[r].op.store
  BY <1>1, UpsertPhases
<1>4. PICK seen : seen = config[s].version
  OBVIOUS
<1>5. seen \in 0..MaxVersions
  BY <1>4, VersionTyped DEF IInv
<1>6. faults' \in 0..MaxFaults /\ config' \in [Store -> ConfigRow]
      /\ history' \in [Store -> [Versions -> Entry \cup {None}]]
  BY <1>1 DEF IInv, SettingsTyped
<1>7. writer \in [Store -> Request \cup {None}]
  BY DEF IInv, SettingsTyped
<1>8. CASE AsExpected(call[r].op, seen)
  <2>1. PICK values : values = IF call[r].op.kind = "save config" THEN call[r].op.values ELSE call[r].read.values
    OBVIOUS
  <2>2. values \in Values
    <3>1. CASE call[r].op.kind = "save config"
      BY <3>1, <2>1, <1>2, OperationFacts
    <3>2. CASE call[r].op.kind = "roll back"
      <4>1. call[r].read \in WorkRow
        BY <3>2, <1>1, <1>2 DEF Decided
      <4> QED BY <3>2, <2>1, <4>1 DEF WorkRow
    <3> QED BY <1>2, <3>1, <3>2 DEF Saves
  <2>3. PICK work : work = Work(values, seen)
    OBVIOUS
  <2>4. work \in WorkRow /\ work.seen = seen
    BY <1>5, <2>2, <2>3 DEF Work, WorkRow
  <2>5. PICK new : new = [call[r] EXCEPT !.phase = "upsert", !.read = work]
    OBVIOUS
  <2>6. /\ new \in CallRow /\ new.phase = "upsert" /\ new.op = call[r].op
        /\ new.caller = call[r].caller /\ new.held = call[r].held /\ new.read = work
    <3>1. "upsert" \in Phase
      BY DEF Phase
    <3>2. work \in ReadRow
      BY <2>4 DEF ReadRow
    <3> QED BY <1>2, <2>5, <3>1, <3>2 DEF CallRow
  <2>7. /\ call' = [call EXCEPT ![r] = new]
        /\ seen = 0 \/ writer[s] = None
        /\ writer' = IF seen = 0 THEN writer ELSE [writer EXCEPT ![s] = r]
    BY <1>3, <1>4, <1>8, <2>1, <2>3, <2>5 DEF LockConfig, Reads, Asks
  <2>8. new \in DecidedCall
    BY <1>1, <1>2, <1>8, <2>4, <2>6 DEF DecidedCall, Decided, KindsAt, Over, Logins, Saves
  <2>9. RowsThere(new)
    BY <2>6 DEF RowsThere
  <2>10. call'[r] = new /\ \A q \in Request \ {r} : call'[q] = call[q]
    BY <2>7 DEF IInv
  <2>11. writer' \in [Store -> Request \cup {None}]
    BY <1>7, <2>7
  <2>12. SavesAreSerial'
    <3>1. ASSUME NEW t \in Store, writer'[t] # None
          PROVE  call'[writer'[t]].phase \in {"upsert", "commit config"} /\ call'[writer'[t]].op.store = t
      <4>1. CASE writer'[t] = r /\ seen # 0 /\ t = s
        BY <4>1, <1>3, <2>6, <2>10
      <4>2. CASE writer'[t] = writer[t]
        <5>1. call[writer[t]].phase \in {"upsert", "commit config"} /\ call[writer[t]].op.store = t
          BY <3>1, <4>2 DEF IInv, SavesAreSerial
        <5>2. writer[t] \in Request \ {r}
          BY <3>1, <4>2, <5>1, <1>1, <1>7
        <5> QED BY <4>2, <5>1, <5>2, <2>10
      <4> QED BY <4>1, <4>2, <1>7, <2>7
    <3>2. ASSUME NEW q \in Request, call'[q].phase \in {"upsert", "commit config"}
          PROVE  /\ call'[q].read.seen > 0 \/ call'[q].phase = "commit config" => writer'[call'[q].op.store] = q
                 /\ call'[q].read.seen > 0 => call'[q].read.seen = config[call'[q].op.store].version
      <4>1. CASE q = r
        <5>1. call'[q].phase = "upsert" /\ call'[q].read.seen = seen /\ call'[q].op.store = s
          BY <4>1, <1>3, <2>4, <2>6, <2>10
        <5>2. seen > 0 => writer'[s] = r
          BY <1>5, <1>7, <2>7
        <5> QED BY <4>1, <5>1, <5>2, <1>4
      <4>2. CASE q # r
        <5>1. call'[q] = call[q]
          BY <4>2, <2>10
        <5>2. /\ call[q].read.seen > 0 \/ call[q].phase = "commit config" => writer[call[q].op.store] = q
              /\ call[q].read.seen > 0 => call[q].read.seen = config[call[q].op.store].version
          BY <3>2, <5>1 DEF IInv, SavesAreSerial
        <5>3. call[q].op.store \in Store /\ q # None
          BY <3>2, <5>1, UpsertPhases
        <5>4. writer[call[q].op.store] = q => writer'[call[q].op.store] = q
          BY <5>3, <1>7, <2>7
        <5> QED BY <5>1, <5>2, <5>4
      <4> QED BY <4>1, <4>2
    <3> QED BY <3>1, <3>2, <1>1 DEF SavesAreSerial
  <2>13. new.op = call[r].op /\ new.read.seen = config[call[r].op.store].version
    BY <1>3, <1>4, <2>4, <2>6
  <2>14. EntriesAreExpected' /\ VersionsAreHistory'
    BY <1>1, <2>6, <2>7, <2>13, HistoryKept
  <2> QED BY <1>1, <1>6, <2>7, <2>8, <2>9, <2>11, <2>12, <2>14, UpsertStep
<1>9. CASE ~AsExpected(call[r].op, seen)
  <2>1. Goes(r, "refused") /\ UNCHANGED writer
    BY <1>3, <1>4, <1>9 DEF LockConfig, Asks
  <2>2. PICK new \in CallRow :
          /\ call' = [call EXCEPT ![r] = new]
          /\ new.phase = "refused" /\ new.op = call[r].op /\ new.caller = call[r].caller
          /\ "refused" \notin Over => new.held = call[r].held /\ new.read = call[r].read
    <3>1. "refused" \in Phase
      BY DEF Phase, Over
    <3> QED BY <2>1, <3>1, GoesRow DEF IInv
  <2>3. new \in DecidedCall
    BY <1>1, <1>2, <2>2, EndedIsDecided DEF Over, Decided
  <2>4. RowsThere(new)
    BY <2>2 DEF RowsThere
  <2>5. UNCHANGED <<staffTables, settings>>
    BY <1>1, <2>1 DEF settings, configVars
  <2> QED BY <1>1, <1>6, <2>2, <2>3, <2>4, <2>5, QuietStep
<1> QED BY <1>8, <1>9

LEMMA UpsertConfigIInv ==
  ASSUME IInv, NEW r \in Request, UpsertConfig(r)
  PROVE  IInv'
<1>1. /\ call[r].phase = "upsert" /\ UNCHANGED <<staffTables, faults, config, history, profile, key>>
      /\ Goes(r, "commit config")
  BY DEF UpsertConfig, At
<1>2. /\ call[r] \in CallRow /\ Decided(call[r]) /\ call[r].op \in Operation
      /\ call[r].op.kind \in Saves /\ r # None
  BY <1>1, UpsertPhases
<1>3. PICK s \in Store : s = call[r].op.store
  BY <1>1, UpsertPhases
<1>4. faults' \in 0..MaxFaults /\ config' \in [Store -> ConfigRow]
      /\ history' \in [Store -> [Versions -> Entry \cup {None}]]
  BY <1>1 DEF IInv, SettingsTyped
<1>5. writer \in [Store -> Request \cup {None}]
  BY DEF IInv, SettingsTyped
<1>6. writer[s] \in {None, r} /\ writer' = [writer EXCEPT ![s] = r]
  BY <1>3 DEF UpsertConfig, Asks
<1>7. PICK new \in CallRow :
        /\ call' = [call EXCEPT ![r] = new]
        /\ new.phase = "commit config" /\ new.op = call[r].op /\ new.caller = call[r].caller
        /\ "commit config" \notin Over => new.held = call[r].held /\ new.read = call[r].read
  <2>1. "commit config" \in Phase
    BY DEF Phase
  <2> QED BY <1>1, <2>1, GoesRow DEF IInv
<1>8. new \in DecidedCall
  BY <1>1, <1>2, <1>7 DEF DecidedCall, Decided, KindsAt, Over, Logins, Saves
<1>9. RowsThere(new)
  BY <1>7 DEF RowsThere
<1>10. call'[r] = new /\ \A q \in Request \ {r} : call'[q] = call[q]
  BY <1>7 DEF IInv
<1>11. writer' \in [Store -> Request \cup {None}]
  BY <1>5, <1>6
<1>12. SavesAreSerial'
  <2>1. ASSUME NEW t \in Store, writer'[t] # None
        PROVE  call'[writer'[t]].phase \in {"upsert", "commit config"} /\ call'[writer'[t]].op.store = t
    <3>1. CASE t = s
      BY <3>1, <1>3, <1>5, <1>6, <1>7, <1>10
    <3>2. CASE t # s
      <4>1. writer'[t] = writer[t]
        BY <3>2, <1>6, <1>5
      <4>2. call[writer[t]].phase \in {"upsert", "commit config"} /\ call[writer[t]].op.store = t
        BY <2>1, <4>1 DEF IInv, SavesAreSerial
      <4>3. writer[t] \in Request \ {r}
        BY <2>1, <3>2, <4>1, <4>2, <1>3, <1>5
      <4> QED BY <4>1, <4>2, <4>3, <1>10
    <3> QED BY <3>1, <3>2
  <2>2. ASSUME NEW q \in Request, call'[q].phase \in {"upsert", "commit config"}
        PROVE  /\ call'[q].read.seen > 0 \/ call'[q].phase = "commit config" => writer'[call'[q].op.store] = q
               /\ call'[q].read.seen > 0 => call'[q].read.seen = config[call'[q].op.store].version
    <3>1. CASE q = r
      <4>1. call'[q].read = call[r].read /\ call'[q].op.store = s
        BY <3>1, <1>3, <1>7, <1>10 DEF Over
      <4>2. call[r].read.seen > 0 => call[r].read.seen = config[s].version
        BY <1>1, <1>3 DEF IInv, SavesAreSerial
      <4>3. writer'[s] = r
        BY <1>5, <1>6
      <4> QED BY <3>1, <4>1, <4>2, <4>3
    <3>2. CASE q # r
      <4>1. call'[q] = call[q]
        BY <3>2, <1>10
      <4>2. /\ call[q].read.seen > 0 \/ call[q].phase = "commit config" => writer[call[q].op.store] = q
            /\ call[q].read.seen > 0 => call[q].read.seen = config[call[q].op.store].version
        BY <2>2, <4>1 DEF IInv, SavesAreSerial
      <4>3. call[q].op.store \in Store /\ q # None
        BY <2>2, <4>1, UpsertPhases
      <4>4. writer[call[q].op.store] = q => writer'[call[q].op.store] = q
        BY <3>2, <4>3, <1>5, <1>6
      <4> QED BY <4>1, <4>2, <4>4
    <3> QED BY <3>1, <3>2
  <2> QED BY <2>1, <2>2, <1>1 DEF SavesAreSerial
<1>13. EntriesAreExpected' /\ VersionsAreHistory'
  <2>1. new.read = call[r].read
    BY <1>7 DEF Over
  <2> QED BY <1>1, <1>7, <2>1, HistoryKept
<1> QED BY <1>1, <1>4, <1>7, <1>8, <1>9, <1>11, <1>12, <1>13, UpsertStep

\* A request that ends lets go of its row; the rows of the others stay locked.
LEMMA ReleaseKeepsOthers ==
  ASSUME IInv, NEW r \in Request, NEW new, new.phase \in Over,
         call' = [call EXCEPT ![r] = new],
         writer' = [t \in Store |-> IF writer[t] = r THEN None ELSE writer[t]],
         \A t \in Store : writer[t] # r => config'[t] = config[t]
  PROVE  SavesAreSerial' /\ writer' \in [Store -> Request \cup {None}]
<1>1. call'[r] = new /\ \A q \in Request \ {r} : call'[q] = call[q]
  BY DEF IInv
<1>2. writer \in [Store -> Request \cup {None}] /\ r # None
  BY AdministrationAssumption DEF IInv, SettingsTyped
<1>3. writer' \in [Store -> Request \cup {None}]
  BY <1>2
<1>4. ASSUME NEW t \in Store, writer'[t] # None
      PROVE  call'[writer'[t]].phase \in {"upsert", "commit config"} /\ call'[writer'[t]].op.store = t
  <2>1. writer'[t] = writer[t] /\ writer[t] \in Request \ {r}
    BY <1>2, <1>4
  <2>2. call[writer[t]].phase \in {"upsert", "commit config"} /\ call[writer[t]].op.store = t
    BY <1>4, <2>1 DEF IInv, SavesAreSerial
  <2> QED BY <2>1, <2>2, <1>1
<1>5. ASSUME NEW q \in Request, call'[q].phase \in {"upsert", "commit config"}
      PROVE  /\ call'[q].read.seen > 0 \/ call'[q].phase = "commit config" => writer'[call'[q].op.store] = q
             /\ call'[q].read.seen > 0 => call'[q].read.seen = config'[call'[q].op.store].version
  <2>1. q # r /\ call'[q] = call[q]
    BY <1>1, <1>5 DEF Over
  <2>2. /\ call[q].read.seen > 0 \/ call[q].phase = "commit config" => writer[call[q].op.store] = q
        /\ call[q].read.seen > 0 => call[q].read.seen = config[call[q].op.store].version
    BY <1>5, <2>1 DEF IInv, SavesAreSerial
  <2>3. PICK t \in Store : t = call[q].op.store
    BY <1>5, <2>1, UpsertPhases
  <2>4. writer[t] = q => writer'[t] = q
    BY <2>1
  <2>5. call[q].read.seen > 0 => config'[t] = config[t]
    BY <2>1, <2>2, <2>3
  <2> QED BY <2>1, <2>2, <2>3, <2>4, <2>5
<1> QED BY <1>3, <1>4, <1>5 DEF SavesAreSerial

\* The number after one that was read
LEMMA SuccessorTyped ==
  ASSUME NEW seen \in 0..MaxVersions
  PROVE  seen + 1 \in Nat \ {0} /\ (seen + 1 <= MaxVersions => seen + 1 \in Versions)
BY AdministrationAssumption DEF Versions

LEMMA FirstVersion == 1 \in Versions
BY AdministrationAssumption DEF Versions

LEMMA FirstNotSaved ==
  ASSUME NEW version \in 0..MaxVersions, version = 0
  PROVE  ~(1 <= version)
OBVIOUS

LEMMA FirstSuccessor ==
  ASSUME NEW seen \in 0..MaxVersions
  PROVE  seen + 1 = 1 <=> seen = 0
BY AdministrationAssumption

\* If it is above the current version it is the next, also when nothing had been read.
LEMMA SuccessorIsNext ==
  ASSUME NEW seen \in 0..MaxVersions, NEW version \in 0..MaxVersions,
         seen > 0 => seen = version, ~(seen + 1 <= version)
  PROVE  seen + 1 = version + 1
BY AdministrationAssumption

\* The request that commits has its row, and what it read is still so: the next version
\* is free exactly if nobody has saved since.
LEMMA CommitFacts ==
  ASSUME IInv, NEW r \in Request, call[r].phase = "commit config", NEW s \in Store, s = call[r].op.store
  PROVE  /\ call[r].read \in WorkRow /\ AsExpected(call[r].op, call[r].read.seen)
         /\ writer[s] = r /\ \A t \in Store \ {s} : writer[t] # r
         /\ NextVersion(r) \in Nat \ {0} /\ NextVersion(r) = call[r].read.seen + 1
         /\ NextVersion(r) <= MaxVersions => NextVersion(r) \in Versions
         /\ NextVersion(r) <= MaxVersions /\ ~VersionTaken(s, NextVersion(r)) =>
              NextVersion(r) = config[s].version + 1
<1>1. call[r].read \in WorkRow /\ AsExpected(call[r].op, call[r].read.seen) /\ r # None
  BY UpsertPhases DEF Decided
<1>2. writer[s] = r /\ (call[r].read.seen > 0 => call[r].read.seen = config[s].version)
  BY DEF IInv, SavesAreSerial
<1>3. \A t \in Store \ {s} : writer[t] # r
  BY <1>1 DEF IInv, SavesAreSerial
<1>4. call[r].read.seen \in 0..MaxVersions /\ MaxVersions \in Nat
  BY <1>1, AdministrationAssumption DEF WorkRow
<1>5. NextVersion(r) = call[r].read.seen + 1
  BY DEF NextVersion
<1>6. NextVersion(r) \in Nat \ {0} /\ (NextVersion(r) <= MaxVersions => NextVersion(r) \in Versions)
  BY <1>4, <1>5, SuccessorTyped
<1>7. ASSUME NextVersion(r) <= MaxVersions, ~VersionTaken(s, NextVersion(r))
      PROVE  NextVersion(r) = config[s].version + 1
  <2>2. config[s].version \in 0..MaxVersions
    BY VersionTyped DEF IInv
  <2>1. ~(NextVersion(r) <= config[s].version)
    <3>1. NextVersion(r) \in Versions /\ history[s][NextVersion(r)] = None
      BY <1>6, <1>7 DEF VersionTaken
    <3>2. NextVersion(r) <= config[s].version => NextVersion(r) = 1
      BY <3>1 DEF IInv, VersionsAreHistory
    <3>3. CASE NextVersion(r) = 1
      <4>1. call[r].read.seen = 0
        BY <1>4, <1>5, <3>3, FirstSuccessor
      <4>2. config[s].version = 0
        BY <3>1, <3>3, <4>1 DEF IInv, EntriesAreExpected, FirstsAreRecorded
      <4> QED BY <2>2, <3>3, <4>2, FirstNotSaved
    <3> QED BY <3>2, <3>3
  <2> QED BY <1>2, <1>4, <1>5, <2>1, <2>2, SuccessorIsNext
<1> QED BY <1>1, <1>2, <1>3, <1>5, <1>6, <1>7

LEMMA SuccessorInjective ==
  ASSUME NEW seen \in 0..MaxVersions, NEW version \in 0..MaxVersions, seen + 1 = version + 1
  PROVE  seen = version
BY AdministrationAssumption

LEMMA UpToNext ==
  ASSUME NEW version \in 0..MaxVersions, NEW next, next = version + 1, NEW n \in Versions
  PROVE  /\ n <= next <=> n <= version \/ n = next
         /\ ~(next <= version) /\ next - 1 = version
BY AdministrationAssumption DEF Versions

LEMMA EntryTyped ==
  ASSUME NEW values \in Values, NEW b \in Request, NEW entry, entry = [values |-> values, by |-> b]
  PROVE  entry \in Entry /\ entry # None /\ entry.by = b /\ entry.values = values
<1>1. entry \in Entry /\ entry.by = b /\ entry.values = values
  BY DEF Entry
<1> QED BY <1>1, AdministrationAssumption

\* A commit that adds version v of a store's configuration
SavesVersion(r, s, new, v, values) ==
  /\ call[r].phase = "commit config" /\ s = call[r].op.store
  /\ new.phase = "done" /\ new.op = call[r].op /\ call' = [call EXCEPT ![r] = new]
  /\ v = NextVersion(r) /\ v <= MaxVersions /\ ~VersionTaken(s, v)
  /\ config' = [config EXCEPT ![s] = [version |-> v, values |-> values]]
  /\ history' = [history EXCEPT ![s] =
       [n \in Versions |-> IF n = v THEN [values |-> values, by |-> r] ELSE history[s][n]]]

\* The version that is added is the next, and it is the one that was expected.
LEMMA CommitSaves ==
  ASSUME IInv, NEW r \in Request, NEW s \in Store, NEW new \in DecidedCall, NEW v,
         NEW values \in Values, SavesVersion(r, s, new, v, values)
  PROVE  /\ config' \in [Store -> ConfigRow]
         /\ history' \in [Store -> [Versions -> Entry \cup {None}]]
         /\ EntriesAreExpected' /\ VersionsAreHistory'
<1>1. /\ call[r].phase = "commit config" /\ s = call[r].op.store
       /\ new.phase = "done" /\ new.op = call[r].op /\ call' = [call EXCEPT ![r] = new]
       /\ v = NextVersion(r) /\ v <= MaxVersions /\ ~VersionTaken(s, v)
  BY DEF SavesVersion
<1>2. PICK row : row = [version |-> v, values |-> values]
  OBVIOUS
<1>3. PICK entry : entry = [values |-> values, by |-> r]
  OBVIOUS
<1>4. PICK rows : rows = [n \in Versions |-> IF n = v THEN entry ELSE history[s][n]]
  OBVIOUS
<1>5. config' = [config EXCEPT ![s] = row] /\ history' = [history EXCEPT ![s] = rows]
  BY <1>2, <1>3, <1>4 DEF SavesVersion
<1>6. /\ AsExpected(call[r].op, call[r].read.seen) /\ v = call[r].read.seen + 1
      /\ v \in Versions /\ v = config[s].version + 1
  BY <1>1, CommitFacts
<1>7. entry \in Entry /\ entry # None /\ entry.by = r /\ entry.values = values
  BY <1>3, EntryTyped
<1>8. row \in ConfigRow /\ row.version = v /\ row.values = values
  BY <1>6, <1>2 DEF ConfigRow
<1>9. /\ config \in [Store -> ConfigRow] /\ history \in [Store -> [Versions -> Entry \cup {None}]]
  BY DEF IInv, SettingsTyped
<1>10. /\ config' = [config EXCEPT ![s] = row] /\ config'[s] = row
      /\ \A t \in Store \ {s} : config'[t] = config[t]
  BY <1>9, <1>5
<1>11. /\ \A n \in Versions : history'[s][n] = IF n = v THEN entry ELSE history[s][n]
      /\ \A t \in Store \ {s} : history'[t] = history[t]
  BY <1>4, <1>9, <1>5
<1>12. history' \in [Store -> [Versions -> Entry \cup {None}]]
  <2>1. rows \in [Versions -> Entry \cup {None}]
    BY <1>7, <1>4, <1>9
  <2> QED BY <1>9, <1>5, <2>1
<1>13. call'[r] = new /\ \A q \in Request \ {r} : call'[q] = call[q]
  BY <1>1 DEF IInv
<1>14. call[r].op.kind \in Saves /\ r # None
  BY <1>1, UpsertPhases
<1>0. FirstsAreRecorded'
  <2> SUFFICES ASSUME NEW q \in Request, call'[q].phase \in {"upsert", "commit config"},
                      call'[q].read.seen = 0
               PROVE  config'[call'[q].op.store].version = 0 \/ history'[call'[q].op.store][1] # None
    BY DEF FirstsAreRecorded
  <2>1. q # r /\ call'[q] = call[q]
    BY <1>1, <1>13
  <2>2. PICK t \in Store : t = call[q].op.store
    BY <2>1, UpsertPhases
  <2>3. config[t].version = 0 \/ history[t][1] # None
    BY <2>1, <2>2 DEF IInv, EntriesAreExpected, FirstsAreRecorded
  <2>4. 1 \in Versions
    BY FirstVersion
  <2>5. CASE t # s
    BY <2>1, <2>2, <2>3, <2>5, <1>10, <1>11
  <2>6. CASE t = s
    <3>1. history'[s][1] = IF 1 = v THEN entry ELSE history[s][1]
      BY <2>4, <1>11
    <3>2. CASE config[s].version = 0
      <4>1. config[s].version \in 0..MaxVersions
        BY VersionTyped DEF IInv
      <4>2. v = 1
        BY <1>6, <3>2, <4>1, FirstSuccessor
      <4> QED BY <1>7, <2>1, <2>2, <2>6, <3>1, <4>2
    <3>3. CASE history[s][1] # None
      BY <1>7, <2>1, <2>2, <2>6, <3>1, <3>3
    <3> QED BY <2>3, <2>6, <3>2, <3>3
  <2> QED BY <2>5, <2>6
<1>15. EntriesAreExpected'
  <2> SUFFICES ASSUME NEW t \in Store, NEW n \in Versions, history'[t][n] # None, history'[t][n].by # None
               PROVE  LET b == history'[t][n].by
                      IN  /\ call'[b].phase = "done" /\ call'[b].op.kind \in Saves
                          /\ call'[b].op.expected # None => call'[b].op.expected = n - 1
    BY <1>0 DEF EntriesAreExpected, SaversAreExpected
  <2>1. CASE t = s /\ n = v
    <3>1. history'[t][n].by = r
      BY <2>1, <1>7, <1>11
    <3>2. call[r].op.expected # None => call[r].op.expected = config[s].version
      <4>1. call[r].op.expected # None => call[r].op.expected = call[r].read.seen
        BY <1>6 DEF AsExpected
      <4>2. call[r].read.seen \in 0..MaxVersions /\ config[s].version \in 0..MaxVersions
        BY <1>1, CommitFacts, VersionTyped DEF IInv, WorkRow
      <4>3. call[r].read.seen = config[s].version
        BY <1>6, <4>2, SuccessorInjective
      <4> QED BY <4>1, <4>3
    <3>3. n - 1 = config[s].version
      <4>1. config[s].version \in 0..MaxVersions
        BY VersionTyped DEF IInv
      <4> QED BY <2>1, <4>1, <1>6, UpToNext
    <3> QED BY <3>1, <3>2, <3>3, <1>13, <1>14, <1>1
  <2>2. CASE ~(t = s /\ n = v)
    <3>1. history'[t][n] = history[t][n]
      BY <2>2, <1>11
    <3>2. PICK b : b = history[t][n].by
      OBVIOUS
    <3>3. /\ call[b].phase = "done" /\ call[b].op.kind \in Saves
          /\ call[b].op.expected # None => call[b].op.expected = n - 1
      BY <3>1, <3>2 DEF IInv, EntriesAreExpected, SaversAreExpected
    <3>4. b \in Request
      <4>1. history[t][n] \in Entry
        BY <3>1, <1>9
      <4> QED BY <4>1, <3>1, <3>2 DEF Entry
    <3>5. call'[b] = call[b]
      BY <3>3, <3>4, <1>1, <1>13
    <3> QED BY <3>1, <3>2, <3>3, <3>5
  <2> QED BY <2>1, <2>2
<1>16. VersionsAreHistory'
  <2>1. ASSUME NEW t \in Store, NEW n \in Versions
        PROVE  /\ history'[t][n] # None => n <= config'[t].version
               /\ n <= config'[t].version => history'[t][n] # None \/ n = 1
               /\ history'[t][n] # None /\ n = config'[t].version
                    => history'[t][n].values = config'[t].values
    <3>1. /\ history[t][n] # None => n <= config[t].version
          /\ n <= config[t].version => history[t][n] # None \/ n = 1
          /\ history[t][n] # None /\ n = config[t].version => history[t][n].values = config[t].values
      BY DEF IInv, VersionsAreHistory
    <3>2. CASE t = s
      <4>1. config[s].version \in 0..MaxVersions
        BY VersionTyped DEF IInv
      <4>2. n <= v <=> n <= config[s].version \/ n = v
        BY <4>1, <1>6, UpToNext
      <4>3. config'[t].version = v /\ config'[t].values = values
        BY <3>2, <1>8, <1>10
      <4>4. history'[s][n] = IF n = v THEN entry ELSE history[s][n]
        BY <1>11
      <4>5. CASE n = v
        BY <3>2, <4>2, <4>3, <4>4, <4>5, <1>7
      <4>6. CASE n # v
        BY <3>1, <3>2, <4>2, <4>3, <4>4, <4>6
      <4> QED BY <4>5, <4>6
    <3>3. CASE t # s
      <4>1. config'[t] = config[t] /\ history'[t] = history[t]
        BY <3>3, <1>10, <1>11
      <4> QED BY <3>1, <4>1
    <3> QED BY <3>2, <3>3
  <2>2. ASSUME NEW q \in Request, call'[q].phase = "done", call'[q].op.kind \in Saves
        PROVE  \E n \in Versions : LET h == history'[call'[q].op.store][n] IN h # None /\ h.by = q
    <3>1. CASE q = r
      <4>1. call'[q].op.store = s
        BY <3>1, <1>13, <1>1
      <4>2. history'[s][v] = entry /\ v \in Versions
        BY <1>6, <1>11
      <4> QED BY <3>1, <4>1, <4>2, <1>7
    <3>2. CASE q # r
      <4>1. call'[q] = call[q]
        BY <3>2, <1>13
      <4>2. PICK n \in Versions : history[call[q].op.store][n] # None /\ history[call[q].op.store][n].by = q
        BY <2>2, <4>1 DEF IInv, VersionsAreHistory, At, Asks, Saves
      <4>3. call[q].op.store \in Store
        <5>1. call[q].op \in Operation
          BY <2>2, <4>1, RowTyped DEF Decided
        <5> QED BY <2>2, <4>1, <5>1, OperationFacts
      <4>4. history[s][v] = None
        BY <1>1 DEF VersionTaken
      <4>5. history'[call[q].op.store][n] = history[call[q].op.store][n]
        BY <4>2, <4>3, <4>4, <1>11
      <4> QED BY <4>1, <4>2, <4>5
    <3> QED BY <3>1, <3>2
  <2> QED BY <2>1, <2>2 DEF VersionsAreHistory, At, Asks, Saves
<1>17. config' \in [Store -> ConfigRow]
  BY <1>8, <1>9, <1>10
<1> QED BY <1>12, <1>15, <1>16, <1>17

LEMMA CommitConfigIInv ==
  ASSUME IInv, NEW r \in Request, CommitConfig(r)
  PROVE  IInv'
<1>1. call[r].phase = "commit config" /\ UNCHANGED <<staffTables, faults, profile, key>>
  BY DEF CommitConfig, At
<1>2. /\ call[r] \in CallRow /\ Decided(call[r]) /\ call[r].op \in Operation
      /\ call[r].op.kind \in Saves /\ r # None
  BY <1>1, UpsertPhases
<1>3. PICK s \in Store : s = call[r].op.store
  BY <1>1, UpsertPhases
<1>4. writer' = [writer EXCEPT ![s] = None] /\ NextVersion(r) <= MaxVersions
  BY <1>3 DEF CommitConfig, Asks
<1>5. call[r].read \in WorkRow /\ writer[s] = r /\ \A t \in Store \ {s} : writer[t] # r
  BY <1>1, <1>3, CommitFacts
<1>6. writer' = [t \in Store |-> IF writer[t] = r THEN None ELSE writer[t]]
  <2>1. writer \in [Store -> Request \cup {None}]
    BY DEF IInv, SettingsTyped
  <2>2. \A t \in Store : writer'[t] = IF writer[t] = r THEN None ELSE writer[t]
    BY <2>1, <1>4, <1>5
  <2>3. writer' = [t \in Store |-> writer'[t]]
    BY <2>1, <1>4
  <2> QED BY <2>2, <2>3
<1>7. PICK v : v = NextVersion(r)
  OBVIOUS
<1>8. PICK values \in Values : values = call[r].read.values
  BY <1>5 DEF WorkRow
<1>9. PICK phase \in {"done", "failed"} :
        /\ Goes(r, phase)
        /\ phase = "failed" => UNCHANGED <<config, history>>
        /\ phase = "done" =>
             /\ ~VersionTaken(s, v)
             /\ config' = [config EXCEPT ![s] = [version |-> v, values |-> values]]
             /\ history' = [history EXCEPT ![s] =
                  [n \in Versions |-> IF n = v THEN [values |-> values, by |-> r] ELSE history[s][n]]]
  BY <1>3, <1>7, <1>8 DEF CommitConfig, Asks
<1>10. PICK new \in CallRow :
         /\ call' = [call EXCEPT ![r] = new]
         /\ new.phase = phase /\ new.op = call[r].op /\ new.caller = call[r].caller
         /\ phase \notin Over => new.held = call[r].held /\ new.read = call[r].read
  <2>1. phase \in Phase
    BY DEF Phase, Over
  <2> QED BY <1>9, <2>1, GoesRow DEF IInv
<1>11. new \in DecidedCall /\ new.phase \in Over
  BY <1>1, <1>2, <1>10, EndedIsDecided DEF Over, Decided
<1>12. RowsThere(new)
  BY <1>10, <1>11 DEF RowsThere, Over
<1>13. faults' \in 0..MaxFaults
  BY <1>1 DEF IInv, SettingsTyped
<1>14. /\ config' \in [Store -> ConfigRow]
       /\ history' \in [Store -> [Versions -> Entry \cup {None}]]
       /\ EntriesAreExpected' /\ VersionsAreHistory'
  <2>1. CASE phase = "done"
    <3>1. /\ ~VersionTaken(s, v) /\ v <= MaxVersions
          /\ config' = [config EXCEPT ![s] = [version |-> v, values |-> values]]
          /\ history' = [history EXCEPT ![s] =
               [n \in Versions |-> IF n = v THEN [values |-> values, by |-> r] ELSE history[s][n]]]
      BY <2>1, <1>4, <1>7, <1>9
    <3>2. SavesVersion(r, s, new, v, values)
      BY <2>1, <3>1, <1>1, <1>3, <1>7, <1>10 DEF SavesVersion
    <3> QED BY <3>2, <1>11, CommitSaves
  <2>2. CASE phase = "failed"
    BY <2>2, <1>1, <1>9, <1>10, HistoryKept DEF IInv, SettingsTyped
  <2> QED BY <2>1, <2>2
<1>15. \A t \in Store : writer[t] # r => config'[t] = config[t]
  <2>1. config \in [Store -> ConfigRow]
    BY DEF IInv, SettingsTyped
  <2> QED BY <1>5, <1>9, <2>1
<1>16. SavesAreSerial' /\ writer' \in [Store -> Request \cup {None}]
  BY <1>6, <1>10, <1>11, <1>15, ReleaseKeepsOthers
<1> QED BY <1>1, <1>10, <1>11, <1>12, <1>13, <1>14, <1>16, UpsertStep

LEMMA FailsIInv ==
  ASSUME IInv, NEW r \in Request, Fails(r)
  PROVE  IInv'
<1>1. /\ call[r].phase \notin Over \cup {"idle"} /\ Goes(r, "failed")
      /\ UNCHANGED <<staffTables, config, history, profile, key>>
      /\ writer' = [t \in Store |-> IF writer[t] = r THEN None ELSE writer[t]]
  BY DEF Fails, RolledBack
<1>2. call[r] \in CallRow /\ Decided(call[r])
  BY RowTyped
<1>3. PICK new \in CallRow :
        /\ call' = [call EXCEPT ![r] = new]
        /\ new.phase = "failed" /\ new.op = call[r].op /\ new.caller = call[r].caller
        /\ "failed" \notin Over => new.held = call[r].held /\ new.read = call[r].read
  <2>1. "failed" \in Phase
    BY DEF Phase, Over
  <2> QED BY <1>1, <2>1, GoesRow DEF IInv
<1>4. new \in DecidedCall /\ new.phase \in Over
  BY <1>1, <1>2, <1>3, EndedIsDecided DEF Over, Decided
<1>5. RowsThere(new)
  BY <1>3 DEF RowsThere
<1>6. faults' \in 0..MaxFaults
  BY FaultTyped DEF Fails, IInv
<1>7. config' \in [Store -> ConfigRow] /\ history' \in [Store -> [Versions -> Entry \cup {None}]]
  BY <1>1 DEF IInv, SettingsTyped
<1>8. EntriesAreExpected' /\ VersionsAreHistory'
  BY <1>1, <1>3, HistoryKept DEF Over
<1>9. SavesAreSerial' /\ writer' \in [Store -> Request \cup {None}]
  BY <1>1, <1>3, <1>4, ReleaseKeepsOthers
<1> QED BY <1>1, <1>3, <1>4, <1>5, <1>6, <1>7, <1>8, <1>9, UpsertStep

-------------------------------------------------------------------------------
LEMMA InitIInv == Init => IInv
<1> SUFFICES ASSUME Init
             PROVE  IInv
  OBVIOUS
<1>1. StaffTyped
  <2>1. /\ places \subseteq Place /\ \A p \in places : OrgAt(p) \in places
        /\ member \in [User -> [Place -> Membership \cup {None}]]
    BY StaffAssumption DEF Init, StaffInit
  <2>2. staff \in [User -> Status \cup {"none"}]
    BY DEF Init, StaffInit, Status
  <2>3. \A u \in User, p \in Place : member[u][p] # None => staff[u] # "none" /\ p \in places
    BY StaffAssumption DEF Init, StaffInit
  <2> QED BY <2>1, <2>2, <2>3 DEF StaffTyped
<1>2. call \in [Request -> DecidedCall] /\ \A r \in Request : call[r].phase = "idle"
  <2>1. Idle \in CallRow /\ Idle.phase = "idle"
    BY DEF Idle, CallRow, ReadRow, Phase
  <2>2. Idle \in DecidedCall
    BY <2>1 DEF DecidedCall, Decided
  <2> QED BY <2>1, <2>2 DEF Init, StaffInit
<1>3. RowsFound
  BY <1>2 DEF RowsFound, RowsThere
<1>4. PICK c \in Saved : config = [s \in Store |-> IF s \in places THEN c ELSE NoConfig]
  BY DEF Init
<1>5. NoConfig \in ConfigRow /\ c \in ConfigRow /\ 1 \in Versions
  BY AdministrationAssumption DEF ConfigRow, Saved, Versions
<1>6. \A s \in Store : config[s] \in Saved
  BY <1>4 DEF Saved
<1>7. PICK recorded \in BOOLEAN : history = [s \in Store |-> [v \in Versions |->
        IF recorded /\ v <= config[s].version
        THEN [values |-> config[s].values, by |-> None] ELSE None]]
  BY DEF Init
<1>8. ASSUME NEW s \in Store, NEW v \in Versions
      PROVE  /\ recorded /\ v <= config[s].version =>
                  /\ history[s][v].values = config[s].values
                  /\ history[s][v] \in Entry /\ history[s][v] # None /\ history[s][v].by = None
             /\ ~(recorded /\ v <= config[s].version) => history[s][v] = None
             /\ v <= config[s].version => v = 1
  <2>1. v <= config[s].version => config[s].values \in Values /\ v = 1
    BY <1>6 DEF Saved, NoConfig, Versions
  <2>2. ~(recorded /\ v <= config[s].version) => history[s][v] = None
    BY <1>7
  <2>3. ASSUME recorded, v <= config[s].version
        PROVE  /\ history[s][v].values = config[s].values
               /\ history[s][v] \in Entry /\ history[s][v] # None /\ history[s][v].by = None
    <3>1. history[s][v] = [values |-> config[s].values, by |-> None]
      BY <1>7, <2>3
    <3> QED BY <2>1, <2>3, <3>1, AdministrationAssumption DEF Entry
  <2> QED BY <2>1, <2>2, <2>3
<1>9. SettingsTyped /\ CodesDiffer
  <2>1. config \in [Store -> ConfigRow]
    BY <1>4, <1>5
  <2>2. history \in [Store -> [Versions -> Entry \cup {None}]]
    BY <1>7, <1>8
  <2>3. NoProfile \in ProfileRow /\ NoProfile.code = None
    BY DEF NoProfile, ProfileRow
  <2>4. /\ profile \in [Store -> ProfileRow] /\ \A s \in Store : profile[s].code = None
        /\ writer \in [Store -> Request \cup {None}]
        /\ key \in [Key -> KeyRow] /\ faults \in 0..MaxFaults
    BY <2>3, StaffAssumption DEF Init, StaffInit, KeyRow
  <2> QED BY <2>1, <2>2, <2>4 DEF SettingsTyped, CodesDiffer
<1>10. SavesAreSerial
  BY <1>2 DEF Init, SavesAreSerial
<1>11. EntriesAreExpected
  BY <1>2, <1>8 DEF EntriesAreExpected, SaversAreExpected, FirstsAreRecorded
<1>12. VersionsAreHistory
  <2>1. \A s \in Store, v \in Versions :
          /\ history[s][v] # None => v <= config[s].version
          /\ v <= config[s].version => history[s][v] # None \/ v = 1
          /\ history[s][v] # None /\ v = config[s].version => history[s][v].values = config[s].values
    BY <1>8
  <2> QED BY <1>2, <2>1 DEF VersionsAreHistory, At
<1> QED BY <1>1, <1>2, <1>3, <1>9, <1>10, <1>11, <1>12 DEF IInv

LEMMA InductiveStep == IInv /\ [Next]_vars => IInv'
<1> SUFFICES ASSUME IInv, [Next]_vars
             PROVE  IInv'
  OBVIOUS
<1>1. CASE UNCHANGED vars
  <2>1. UNCHANGED <<places, staff, member, call, faults, config, history, writer, profile, key>>
    BY <1>1 DEF vars, staffVars, staffTables, settings, configVars
  <2>2. StaffTyped' /\ SettingsTyped' /\ CodesDiffer' /\ (call \in [Request -> DecidedCall])'
    BY <2>1 DEF IInv, StaffTyped, SettingsTyped, CodesDiffer
  <2>3. RowsFound'
    BY <2>1 DEF IInv, RowsFound, RowsThere
  <2>4. SavesAreSerial'
    BY <2>1 DEF IInv, SavesAreSerial
  <2>5. EntriesAreExpected'
    BY <2>1 DEF IInv, EntriesAreExpected, SaversAreExpected, FirstsAreRecorded
  <2>6. VersionsAreHistory'
    BY <2>1 DEF IInv, VersionsAreHistory, At, Asks
  <2> QED BY <2>2, <2>3, <2>4, <2>5, <2>6 DEF IInv
<1>2. CASE Next
  <2>1. ASSUME NEW r \in Request, StaffStep(r), UNCHANGED settings
        PROVE  IInv'
    BY <2>1, StaffStepIInv
  <2>2. ASSUME NEW r \in Request,
               LoadStore(r) \/ ReadHistory(r) \/ LockConfig(r) \/ UpsertConfig(r) \/ CommitConfig(r)
        PROVE  IInv'
    BY <2>2, LoadStoreIInv, ReadHistoryIInv, LockConfigIInv, UpsertConfigIInv, CommitConfigIInv
  <2>3. ASSUME NEW r \in Request,
               InsertOrg(r) \/ InsertStore(r) \/ UpdateStore(r) \/ InsertKey(r) \/ RevokeKey(r)
        PROVE  IInv'
    BY <2>3, InsertOrgIInv, InsertStoreIInv, UpdateStoreIInv, KeyIInv
  <2>4. ASSUME NEW r \in Request, Fails(r)
        PROVE  IInv'
    BY <2>4, FailsIInv
  <2>5. ASSUME NEW u \in User, DisableUser(u), UNCHANGED settings
        PROVE  IInv'
    BY <2>5, DisableUserIInv
  <2> QED BY <1>2, <2>1, <2>2, <2>3, <2>4, <2>5 DEF Next
<1> QED BY <1>1, <1>2

THEOREM AdministrationInvariant == Spec => []IInv
<1>1. Init => IInv
  BY InitIInv
<1>2. IInv /\ [Next]_vars => IInv'
  BY InductiveStep
<1> QED BY <1>1, <1>2, PTL DEF Spec

\* Every membership has its user and its organisation, versions count from one, codes
\* differ within an organisation, and only a save holds the lock of a configuration.
THEOREM MembershipsHaveTheirRows == Spec => []TypeOK
<1>1. IInv => TypeOK
  <2> SUFFICES ASSUME IInv
               PROVE  TypeOK
    OBVIOUS
  <2>1. \A r \in Request : call[r] \in CallRow
    BY RowTyped
  <2>2. \A r \in Request :
          /\ call[r].phase \in Phase /\ call[r].caller \in User \cup {None}
          /\ call[r].op \in Ops \cup {None} /\ call[r].held \subseteq [place: Place, role: Role]
    BY <2>1 DEF CallRow, Holding
  <2>3. /\ profile \in [Store -> [text: Text \cup {None}, code: Code \cup {None}, invites: BOOLEAN]]
        /\ key \in [Key -> [store: Store \cup {None}, revoked: BOOLEAN]]
        /\ faults \in 0..MaxFaults
    BY DEF IInv, SettingsTyped, ProfileRow, KeyRow
  <2>4. \A s \in Store :
          /\ config[s] \in [version: Versions, values: Values] \cup {NoConfig}
          /\ writer[s] # None =>
               call[writer[s]].phase \in {"upsert", "commit config"} /\ Asks(writer[s]).store = s
    BY DEF IInv, SettingsTyped, ConfigRow, SavesAreSerial, Asks
  <2> QED BY <2>2, <2>3, <2>4 DEF TypeOK, IInv, StaffTyped, CodesDiffer
<1> QED BY <1>1, AdministrationInvariant, PTL

\* However many administrators save and roll back at once: no version is skipped or
\* duplicated, and every save that was acknowledged is in the history.
THEOREM NoVersionIsLost == Spec => []VersionsAreHistory
<1>1. IInv => VersionsAreHistory
  BY DEF IInv
<1> QED BY <1>1, AdministrationInvariant, PTL

\* A save or a rollback that names the version it expects never replaces another one,
\* not even the first version of a store that had none.
THEOREM ExpectedVersionsHold == Spec => []NothingUnseenIsOverwritten
<1>1. IInv => NothingUnseenIsOverwritten
  BY DEF IInv, EntriesAreExpected, SaversAreExpected, NothingUnseenIsOverwritten, Asks
<1> QED BY <1>1, AdministrationInvariant, PTL

\* Whatever ids the path and the body of a request combine, it writes only where its
\* principal held the permission, and only a platform administrator makes another.
THEOREM PermissionsHold == Spec => []WritesStayInScope
<1>1. IInv => WritesStayInScope
  <2> SUFFICES ASSUME IInv, NEW r \in Request
               PROVE  /\ call[r].phase \in {"insert member", "set role", "set status", "lock config", "upsert",
                                            "commit config", "insert store", "update store", "insert key", "revoke key"}
                           => HasPermission(call[r].held, PermissionOf(call[r].op), WritesTo(r), call[r].op.store)
                      /\ \/ call[r].phase \in {"insert member", "set role"} /\ call[r].op.role = "platform_admin"
                         \/ call[r].phase = "insert org"
                           => IsPlatformAdmin(call[r].held)
    BY DEF WritesStayInScope, At, Asks
  <2>1. Decided(call[r])
    BY RowTyped
  <2>2. ASSUME call[r].phase \in {"insert member", "set role", "set status", "lock config", "upsert",
                                  "commit config", "insert store", "update store", "insert key", "revoke key"}
        PROVE  HasPermission(call[r].held, PermissionOf(call[r].op), WritesTo(r), call[r].op.store)
    <3>1. call[r].op.kind \in KindsAt(call[r].phase) /\ call[r].op \in Operation
      BY <2>1, <2>2 DEF Decided
    <3>2. call[r].op.kind \notin Logins /\ call[r].op.kind # "create org"
      BY <2>2, <3>1 DEF KindsAt, Logins, Saves
    <3>3. HasPermission(call[r].held, PermissionOf(call[r].op), call[r].op.org, call[r].op.store)
      BY <2>1, <2>2, <3>2 DEF Decided, Over
    <3>4. WritesTo(r) = call[r].op.org
      <4>1. CASE call[r].phase = "insert member"
        BY <2>1, <3>1, <4>1 DEF Decided, KindsAt, WritesTo, Asks
      <4>2. CASE call[r].phase \in {"set role", "set status"}
        BY <2>1, <3>1, <4>2 DEF Decided, KindsAt, WritesTo, Asks
      <4>3. CASE call[r].phase = "insert store"
        BY <3>1, <4>3, OperationFacts DEF KindsAt, WritesTo, Asks
      <4>4. CASE call[r].phase \in {"lock config", "upsert", "commit config", "update store",
                                    "insert key", "revoke key"}
        <5>1. OrgOf[call[r].op.store] = call[r].op.org
          BY <2>1, <4>4 DEF Decided
        <5>2. call[r].op.kind \notin {"add member", "change member"}
          BY <3>1, <4>4 DEF KindsAt, Saves
        <5> QED BY <5>1, <5>2 DEF WritesTo, Asks
      <4> QED BY <2>2, <4>1, <4>2, <4>3, <4>4
    <3> QED BY <3>3, <3>4
  <2>3. \/ call[r].phase \in {"insert member", "set role"} /\ call[r].op.role = "platform_admin"
        \/ call[r].phase = "insert org"
          => IsPlatformAdmin(call[r].held)
    <3>1. call[r].phase = "insert member" => call[r].op.kind = "add member"
      BY <2>1 DEF Decided, KindsAt
    <3> QED BY <2>1, <3>1 DEF Decided
  <2> QED BY <2>2, <2>3
<1> QED BY <1>1, AdministrationInvariant, PTL

-------------------------------------------------------------------------------
\* The last administrator

\* Who keeps what he holds stays an administrator.
LEMMA HoldersStay ==
  ASSUME NEW u \in User, NEW o \in Org, u \in Administrators(o),
         \A h \in Active(u) : h \in Active(u)' \/ IsPlatformAdmin(Active(u))'
  PROVE  u \in Administrators(o)'
<1>1. PICK before : before = Active(u)
  OBVIOUS
<1>2. PICK after : after = Active(u)'
  OBVIOUS
<1>3. \/ \E h \in before : h.role = "platform_admin"
      \/ \E h \in before : /\ OrgAt(h.place) = o /\ "staff.manage" \in RolePermissions[h.role]
                           /\ h.place \in Org \/ h.place = None
  BY <1>1 DEF Administrators, HasPermission, IsPlatformAdmin
<1>4. \A h \in before : h \in after \/ \E g \in after : g.role = "platform_admin"
  BY <1>1, <1>2 DEF IsPlatformAdmin
<1>5. \/ \E h \in after : h.role = "platform_admin"
      \/ \E h \in after : /\ OrgAt(h.place) = o /\ "staff.manage" \in RolePermissions[h.role]
                          /\ h.place \in Org \/ h.place = None
  BY <1>3, <1>4
<1> QED BY <1>2, <1>5 DEF Administrators, HasPermission, IsPlatformAdmin

LEMMA SameRowsSameActive ==
  ASSUME NEW u \in User, member'[u] = member[u]
  PROVE  Active(u)' = Active(u)
BY DEF Active

\* New memberships and a promotion take nothing from anybody.
LEMMA GrantsTakeNothing ==
  ASSUME IInv, NEW r \in Request, InsertMember(r) \/ Grant(r) \/ Promote(r), NEW u \in User
  PROVE  \A h \in Active(u) : h \in Active(u)' \/ IsPlatformAdmin(Active(u))'
<1>1. call[r].phase \in {"insert member", "grant", "promote"} /\ call[r] \in DecidedCall
  BY RowTyped DEF InsertMember, Grant, Promote, At
<1>2. member \in [User -> [Place -> Membership \cup {None}]]
  BY DEF IInv, StaffTyped
<1>3. CASE UNCHANGED member
  BY <1>3, SameRowsSameActive
<1>4. CASE \E p \in Place : \E row : member[call[r].op.user][p] = None
             /\ member' = [member EXCEPT ![call[r].op.user][p] = row]
  <2>1. PICK p \in Place : \E row : member[call[r].op.user][p] = None
             /\ member' = [member EXCEPT ![call[r].op.user][p] = row]
    BY <1>4
  <2>2. \A q \in Place : member[u][q] # None => member'[u][q] = member[u][q]
    BY <1>2, <2>1
  <2> QED BY <2>2 DEF Active
<1>5. CASE Promote(r)
  <2>1. PICK p \in Place : p = call[r].op.org
    BY <1>5, BootstrapFacts DEF Place, Promote, At
  <2>2. member' = [member EXCEPT ![call[r].op.user][p].role = "platform_admin"]
    BY <1>5, <2>1 DEF Promote, Asks
  <2>3. \A q \in Place : ~(u = call[r].op.user /\ q = p) => member'[u][q] = member[u][q]
    BY <1>2, <2>2
  <2>4. ASSUME u = call[r].op.user, member[u][p] # None, member[u][p].status = "active"
        PROVE  IsPlatformAdmin(Active(u))'
    <3>1. member[u][p] \in Membership
      BY <1>2, <2>4
    <3>2. member'[u][p] # None /\ member'[u][p].role = "platform_admin" /\ member'[u][p].status = "active"
      BY <1>2, <2>2, <2>4, <3>1, StaffAssumption DEF Membership, Role
    <3>3. PICK h : h = [place |-> p, role |-> member'[u][p].role]
      OBVIOUS
    <3>4. h \in Active(u)' /\ h.role = "platform_admin"
      <4>1. h \in Active(u)'
        BY <3>2, <3>3 DEF Active
      <4>2. h.role = "platform_admin"
        BY <3>2, <3>3
      <4> QED BY <4>1, <4>2
    <3> QED BY <3>4 DEF IsPlatformAdmin
  <2>5. ASSUME NEW h \in Active(u)
        PROVE  h \in Active(u)' \/ IsPlatformAdmin(Active(u))'
    <3>1. PICK q \in Place : /\ member[u][q] # None /\ member[u][q].status = "active"
                             /\ h = [place |-> q, role |-> member[u][q].role]
      BY <2>5 DEF Active
    <3>2. CASE u = call[r].op.user /\ q = p
      BY <3>1, <3>2, <2>4
    <3>3. CASE ~(u = call[r].op.user /\ q = p)
      BY <3>1, <3>3, <2>3 DEF Active
    <3> QED BY <3>2, <3>3
  <2> QED BY <2>5
<1>6. \/ UNCHANGED member \/ Promote(r)
      \/ \E p \in Place : \E row : member[call[r].op.user][p] = None
             /\ member' = [member EXCEPT ![call[r].op.user][p] = row]
  <2>1. CASE InsertMember(r)
    <3>1. call[r].op.place \in Place
      BY <2>1, <1>1, MemberPhases DEF InsertMember, At
    <3> QED BY <2>1, <3>1 DEF InsertMember, Asks
  <2>2. CASE Grant(r)
    <3>1. call[r].op.org \in Place
      BY <2>2, <1>1, MemberPhases DEF Grant, At, Place
    <3> QED BY <2>2, <3>1 DEF Grant, Asks
  <2> QED BY <2>1, <2>2
<1> QED BY <1>3, <1>4, <1>5, <1>6

\* Who changes a membership is not its user, so he keeps his own.
LEMMA ChangersStay ==
  ASSUME IInv, NEW r \in Request, SetRole(r) \/ SetStatus(r), NEW o \in Org,
         Administrators(o)' = {}
  PROVE  /\ call[r].phase \in {"set role", "set status"}
         /\ call[r].caller \notin Administrators(o)
<1>1. call[r].phase \in {"set role", "set status"}
  BY DEF SetRole, SetStatus, At
<1>2. call[r].caller \in User /\ call[r].caller # call[r].op.user
  BY <1>1, RowTyped DEF Decided
<1>3. member'[call[r].caller] = member[call[r].caller]
  BY <1>2 DEF IInv, StaffTyped, SetRole, SetStatus, Asks
<1>4. PICK u \in User : u = call[r].caller
  BY <1>2
<1>5. Active(u)' = Active(u)
  BY <1>3, <1>4, SameRowsSameActive
<1>6. u \in Administrators(o) => u \in Administrators(o)'
  BY <1>5, HoldersStay
<1> QED BY <1>1, <1>4, <1>6

\* An organisation loses its last administrator only to a request whose caller has ceased
\* to be one since it was checked: no single request, in any order, removes its own caller.
THEOREM LastAdministratorIsNotRemovedAlone == Spec => LastOneStays
<1>1. IInv /\ [Next]_vars =>
        [member' # member =>
           \A o \in Org : Administrators(o) # {} /\ Administrators(o)' = {} =>
             \E r \in Request :
               /\ call[r].phase \in {"set role", "set status"}
               /\ call[r].caller \notin Administrators(o)]_vars
  <2> SUFFICES ASSUME IInv, Next, member' # member, NEW o \in Org,
                      Administrators(o) # {}, Administrators(o)' = {}
               PROVE  \E r \in Request :
                        /\ call[r].phase \in {"set role", "set status"}
                        /\ call[r].caller \notin Administrators(o)
    OBVIOUS
  <2>1. PICK u \in User : u \in Administrators(o)
    BY DEF Administrators
  <2>2. \E r \in Request :
          SetRole(r) \/ SetStatus(r) \/ InsertMember(r) \/ Grant(r) \/ Promote(r)
    BY DEF Next, StaffStep, BeginWithUser, Authenticate, LoadPrincipal, FindUser, CreateUser, LoadMember,
           ListMembers, LoadStore, ReadHistory, LockConfig, UpsertConfig, CommitConfig, InsertOrg,
           InsertStore, UpdateStore, InsertKey, RevokeKey, Fails, DisableUser, staffTables
  <2>3. PICK r \in Request : SetRole(r) \/ SetStatus(r) \/ InsertMember(r) \/ Grant(r) \/ Promote(r)
    BY <2>2
  <2>4. ~(InsertMember(r) \/ Grant(r) \/ Promote(r))
    BY <2>1, GrantsTakeNothing, HoldersStay
  <2> QED BY <2>3, <2>4, ChangersStay
<1> QED BY <1>1, AdministrationInvariant, PTL DEF Spec, LastOneStays
===============================================================================
