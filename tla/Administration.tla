----------------------------- MODULE Administration -----------------------------
(***************************************************************************)
(* The administration API: RequireStaff in front of the handlers for staff *)
(* (StaffAccess), loyalty configurations, stores and API keys.  Upsert is  *)
(* the only handler with a transaction; a step of it is a statement, and   *)
(* its writes appear when it commits.                                      *)
(***************************************************************************)
EXTENDS StaffAccess, Integers

CONSTANTS
  Values,       \* contents of a configuration
  Text, Code,   \* names and addresses of stores, external codes
  Key,          \* API keys
  MaxVersions   \* bound: versions of one configuration

\* What a request may ask for: the ids of its path and the fields of its body, None where
\* a field is absent.  A new row takes its organisation from the path, and a membership's
\* PATCH that sets nothing is refused.
Versions == 1..MaxVersions
Entry == [values: Values, by: Request \cup {None}]
StoreFields == [kind: {"create store", "edit store"}, org: Org, store: Store, text: Text \cup {None},
                code: Code \cup {None, ""}, invites: {"on", "off", None}]
MemberFields == [kind: {"change member"}, org: Org, store: {None}, user: User, place: Place,
                 role: Role \cup {None}, status: Status \cup {None}]
Operation ==
  [kind: {"add member"}, org: Org, store: {None}, user: User, place: Place, role: Role]
  \cup {op \in MemberFields : op.role # None \/ op.status # None}
  \cup [kind: {"save config"}, org: Org, store: Store, values: Values, expected: Int \cup {None}]
  \cup [kind: {"roll back"}, org: Org, store: Store, version: Versions, expected: Int \cup {None}]
  \cup {op \in StoreFields : op.kind = "create store" => OrgOf[op.store] = op.org}
  \cup [kind: {"create key", "revoke key"}, org: Org, store: Store, key: Key]
  \cup [kind: {"create org"}, org: Org, store: {None}]
  \cup [kind: {"login"}, user: User, org: {None}, store: {None}]
  \cup [kind: {"bootstrap"}, user: User, org: Org, store: {None}]

ASSUME AdministrationAssumption ==
  /\ MaxVersions \in Nat \ {0} /\ Ops \subseteq Operation
  /\ None \notin Values \cup Text \cup Code \cup Key \cup Request \cup Store \cup Entry

VARIABLES
  config,    \* loyalty_configs: version (0: no row) and values
  history,   \* loyalty_config_history: per store and version, the values and the request
  writer,    \* the transaction that has the store's configuration row locked
  profile,   \* stores: text (None: as created), external code, sms_invite_enabled
  key        \* store_api_keys: the key's store, or None, and whether it is revoked

configVars == <<config, history, writer>>
settings == <<configVars, profile, key>>
vars == <<staffVars, settings>>

NoConfig == [version |-> 0, values |-> None]
\* A store has no configuration yet, or the first version of one, which is not in the
\* history if it is older than that.
Saved == {NoConfig} \cup [version: {1}, values: Values]

NoProfile == [text |-> None, code |-> None, invites |-> FALSE]

Init ==
  /\ StaffInit
  /\ \E c \in Saved : config = [s \in Store |-> IF s \in places THEN c ELSE NoConfig]
  /\ \E recorded \in BOOLEAN :
       history = [s \in Store |-> [v \in Versions |->
         IF recorded /\ v <= config[s].version
         THEN [values |-> config[s].values, by |-> None] ELSE None]]
  /\ writer = [s \in Store |-> None]
  /\ profile = [s \in Store |-> NoProfile]
  /\ key = [k \in Key |-> [store |-> None, revoked |-> FALSE]]

-------------------------------------------------------------------------------
\* resolveScopedStore: the store has to be one of the path's organisation.

\* Mutant: any store the path names.
AnyStore(op) == TRUE
StoreInOrg(op) == OrgOf[op.store] = op.org

AfterStore(kind) ==
  CASE kind = "save config" -> "lock config"
    [] kind = "roll back"   -> "read history"
    [] kind = "edit store"  -> "update store"
    [] kind = "create key"  -> "insert key"
    [] kind = "revoke key"  -> "revoke key"

LoadStore(r) ==
  /\ At(r, "load store")
  /\ IF Asks(r).store \in places /\ StoreInOrg(Asks(r))
     THEN Reads(r, AfterStore(Asks(r).kind), profile[Asks(r).store])
     ELSE Goes(r, "refused")
  /\ UNCHANGED <<staffTables, faults, settings>>

-------------------------------------------------------------------------------
\* handlePutLoyaltyConfig, handleRollbackLoyaltyConfig and Upsert

\* The values to save and the version read under the lock.
Work(values, seen) == [values |-> values, seen |-> seen]

ReadHistory(r) ==
  LET op == Asks(r)
      entry == history[op.store][op.version]
  IN  /\ At(r, "read history")
      /\ IF entry = None THEN Goes(r, "refused")
                         ELSE Reads(r, "lock config", Work(entry.values, 0))
      /\ UNCHANGED <<staffTables, faults, settings>>

\* Mutant: the rollback does not hand its expected version on.
ExpectedBySave(op, seen) ==
  op.kind = "save config" /\ op.expected # None => op.expected = seen
AsExpected(op, seen) == op.expected # None => op.expected = seen

\* SELECT ... FOR UPDATE; a store without a configuration has no row to lock, and
\* an uncommitted first one is not seen.
LockConfig(r) ==
  LET op == Asks(r)
      s == op.store
      seen == config[s].version
      values == IF op.kind = "save config" THEN op.values ELSE call[r].read.values
      locked == IF seen = 0 THEN writer ELSE [writer EXCEPT ![s] = r]
  IN  /\ At(r, "lock config")
      /\ seen = 0 \/ writer[s] = None
      /\ IF AsExpected(op, seen)
         THEN Reads(r, "upsert", Work(values, seen)) /\ writer' = locked
         ELSE Goes(r, "refused") /\ UNCHANGED writer
      /\ UNCHANGED <<staffTables, faults, config, history, profile, key>>

\* INSERT ... ON CONFLICT DO UPDATE waits for the row's lock, if it is not held.
UpsertConfig(r) ==
  LET s == Asks(r).store
  IN  /\ At(r, "upsert") /\ writer[s] \in {None, r}
      /\ writer' = [writer EXCEPT ![s] = r]
      /\ Goes(r, "commit config")
      /\ UNCHANGED <<staffTables, faults, config, history, profile, key>>

\* Mutant: the history takes any version.
NoUniqueVersion(s, v) == FALSE

NextVersion(r) == call[r].read.seen + 1
\* UNIQUE (store_id, version)
VersionTaken(s, v) == history[s][v] # None

\* The history row and COMMIT; a version that is taken rolls everything back.
CommitConfig(r) ==
  LET s == Asks(r).store
      v == NextVersion(r)
      values == call[r].read.values
  IN  /\ At(r, "commit config") /\ v <= MaxVersions
      /\ writer' = [writer EXCEPT ![s] = None]
      /\ IF VersionTaken(s, v)
         THEN Goes(r, "failed") /\ UNCHANGED <<config, history>>
         ELSE /\ config' = [config EXCEPT ![s] = [version |-> v, values |-> values]]
              /\ history' = [history EXCEPT ![s] =
                   [n \in Versions |-> IF n = v THEN [values |-> values, by |-> r] ELSE @[n]]]
              /\ Goes(r, "done")
      /\ UNCHANGED <<staffTables, faults, profile, key>>

-------------------------------------------------------------------------------
\* Stores: the fields that are present are set, on a new row or on the row read before,
\* and written with all the others.
Applied(op, row) ==
  [text    |-> IF op.text = None THEN row.text ELSE op.text,
   code    |-> IF op.code = None THEN row.code ELSE IF op.code = "" THEN None ELSE op.code,
   invites |-> IF op.invites = None THEN row.invites ELSE op.invites = "on"]

CodeTaken(s, code) ==
  code # None /\ \E t \in Store \ {s} : OrgOf[t] = OrgOf[s] /\ profile[t].code = code

\* handleCreateOrganization; names need not differ
InsertOrg(r) ==
  /\ At(r, "insert org") /\ Asks(r).org \notin places
  /\ places' = places \cup {Asks(r).org}
  /\ Goes(r, "done")
  /\ UNCHANGED <<staff, member, faults, settings>>

\* handleCreateStore
InsertStore(r) ==
  LET op == Asks(r)
      row == Applied(op, NoProfile)
  IN  /\ At(r, "insert store") /\ op.store \notin places
      /\ IF op.org \in places /\ ~CodeTaken(op.store, row.code)
         THEN /\ places' = places \cup {op.store}
              /\ profile' = [profile EXCEPT ![op.store] = row]
              /\ Goes(r, "done")
         ELSE /\ Goes(r, IF op.org \in places THEN "refused" ELSE "failed")
              /\ UNCHANGED <<places, profile>>
      /\ UNCHANGED <<staff, member, faults, configVars, key>>

\* handleUpdateStore
UpdateStore(r) ==
  LET op == Asks(r)
      row == Applied(op, call[r].read)
  IN  /\ At(r, "update store")
      /\ IF CodeTaken(op.store, row.code)
         THEN Goes(r, "refused") /\ UNCHANGED profile
         ELSE Goes(r, "done") /\ profile' = [profile EXCEPT ![op.store] = row]
      /\ UNCHANGED <<staffTables, faults, configVars, key>>

-------------------------------------------------------------------------------
\* handleCreateStoreAPIKey, handleRevokeStoreAPIKey
InsertKey(r) ==
  /\ At(r, "insert key") /\ key[Asks(r).key].store = None
  /\ key' = [key EXCEPT ![Asks(r).key].store = Asks(r).store]
  /\ Goes(r, "done")
  /\ UNCHANGED <<staffTables, faults, configVars, profile>>

KeyOfStore(op) == key[op.key].store = op.store

RevokeKey(r) ==
  LET op == Asks(r)
  IN  /\ At(r, "revoke key")
      /\ IF KeyOfStore(op) /\ ~key[op.key].revoked
         THEN Goes(r, "done") /\ key' = [key EXCEPT ![op.key].revoked = TRUE]
         ELSE Goes(r, "refused") /\ UNCHANGED key
      /\ UNCHANGED <<staffTables, faults, configVars, profile>>

-------------------------------------------------------------------------------
\* Mutant: Upsert returns without its deferred Rollback.
NotRolledBack(r) == writer
RolledBack(r) == [s \in Store |-> IF writer[s] = r THEN None ELSE writer[s]]

\* A statement fails or the request is abandoned: its transaction is rolled back.
Fails(r) ==
  /\ call[r].phase \notin Over \cup {"idle"} /\ Fault
  /\ Goes(r, "failed")
  /\ writer' = RolledBack(r)
  /\ UNCHANGED <<staffTables, config, history, profile, key>>

Next ==
  \/ \E r \in Request :
       \/ StaffStep(r) /\ UNCHANGED settings
       \/ LoadStore(r) \/ ReadHistory(r) \/ LockConfig(r) \/ UpsertConfig(r) \/ CommitConfig(r)
       \/ InsertOrg(r) \/ InsertStore(r) \/ UpdateStore(r) \/ InsertKey(r) \/ RevokeKey(r)
       \/ Fails(r)
  \/ \E u \in User : DisableUser(u) /\ UNCHANGED settings

Spec == Init /\ [][Next]_vars

-------------------------------------------------------------------------------
Phase == {"idle", "load principal", "find user", "create user", "insert member", "load member",
          "set role", "set status", "list members", "promote", "grant", "load store",
          "read history", "lock config", "upsert", "commit config", "insert org", "insert store", "update store",
          "insert key", "revoke key"} \cup Over

\* The type invariant: every membership has its user and its organisation, versions
\* count from one, no two stores of an organisation share a code, and only a request
\* that is saving a configuration has its row locked.
TypeOK ==
  /\ places \subseteq Place /\ \A p \in places : OrgAt(p) \in places
  /\ staff \in [User -> Status \cup {"none"}]
  /\ member \in [User -> [Place -> Membership \cup {None}]]
  /\ \A u \in User, p \in Place : member[u][p] # None => staff[u] # "none" /\ p \in places
  /\ \A r \in Request :
       /\ call[r].phase \in Phase /\ call[r].caller \in User \cup {None}
       /\ call[r].op \in Ops \cup {None}
       /\ call[r].held \subseteq [place: Place, role: Role]
  /\ \A s \in Store :
       /\ config[s] \in [version: Versions, values: Values] \cup {NoConfig}
       /\ writer[s] # None =>
            call[writer[s]].phase \in {"upsert", "commit config"} /\ Asks(writer[s]).store = s
  /\ profile \in [Store -> [text: Text \cup {None}, code: Code \cup {None}, invites: BOOLEAN]]
  /\ \A s, t \in Store :
       profile[s].code # None /\ profile[s].code = profile[t].code /\ OrgOf[s] = OrgOf[t] => s = t
  /\ key \in [Key -> [store: Store \cup {None}, revoked: BOOLEAN]]
  /\ faults \in 0..MaxFaults

\* Upsert's promise, "a version is never skipped or duplicated under concurrent
\* writes": the history is the versions up to the current one, but for a first one
\* that is older than the history; the last of them is the configuration in force,
\* and every save that was acknowledged is in it.
VersionsAreHistory ==
  /\ \A s \in Store, v \in Versions :
       /\ history[s][v] # None => v <= config[s].version
       /\ v <= config[s].version => history[s][v] # None \/ v = 1
       /\ history[s][v] # None /\ v = config[s].version => history[s][v].values = config[s].values
  /\ \A r \in Request :
       At(r, "done") /\ Asks(r).kind \in {"save config", "roll back"} =>
         \E v \in Versions : LET h == history[Asks(r).store][v] IN h # None /\ h.by = r

\* ExpectedVersion's promise: who saves over a version has seen it, however many
\* writers there are and also when there was none yet.
NothingUnseenIsOverwritten ==
  \A s \in Store, v \in Versions :
    LET h == history[s][v]
    IN  h # None /\ h.by # None /\ Asks(h.by).expected # None =>
          Asks(h.by).expected = v - 1

\* The organisation whose data a request is about to write.
WritesTo(r) ==
  IF Asks(r).kind \in {"add member", "change member"} THEN OrgAt(Asks(r).place)
  ELSE OrgOf[Asks(r).store]

\* RequireStaff and the handlers' own checks: no request gets as far as a write in
\* an organisation where its principal held nothing that allows it, and only a
\* platform administrator gets to grant that role or to open an organisation,
\* whatever ids the path and the body combine.
WritesStayInScope ==
  \A r \in Request :
    /\ call[r].phase \in {"insert member", "set role", "set status", "lock config", "upsert",
                          "commit config", "insert store", "update store", "insert key", "revoke key"}
         => HasPermission(call[r].held, PermissionOf(Asks(r)), WritesTo(r), Asks(r).store)
    /\ \/ call[r].phase \in {"insert member", "set role"} /\ Asks(r).role = "platform_admin"
       \/ At(r, "insert org")
         => IsPlatformAdmin(call[r].held)

\* admin_staff.go's argument for having no check of the last administrator: whoever
\* removes one is an administrator himself and cannot be the one removed.  So an
\* organisation loses its last one only to somebody who has just ceased to be one.
LastOneStays ==
  [][member' # member =>
     \A o \in Org : Administrators(o) # {} /\ Administrators(o)' = {} =>
       \E r \in Request :
         /\ call[r].phase \in {"set role", "set status"}
         /\ call[r].caller \notin Administrators(o)]_vars

\* The conclusion of that comment: "a caller can never be the last admin they
\* remove".  Two administrators who remove each other at once leave none.
EveryOrgAdministered == \A o \in Org \cap places : Administrators(o) # {}
===============================================================================
