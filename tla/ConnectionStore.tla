--------------------------- MODULE ConnectionStore ---------------------------
(***************************************************************************)
(* Saved connections and their passwords: ConnectionService on top of the   *)
(* ConnectionRepository (SQLite) and a CredentialStore, with the actions of *)
(* ConnectionManagementController, ImportExportController and              *)
(* ConnectivityCheckService.  Each connection is a row that names its       *)
(* secret by a reference; the two stores are written one after the other    *)
(* and there is no transaction over both.                                  *)
(*                                                                         *)
(* Actions run in the GUI thread.  QtKeychain runs a nested event loop for  *)
(* each of its jobs, in which the user may start the next action: the       *)
(* actions under way are a stack.  Dialogs are modal.  Connectivity checks  *)
(* run in the pool.                                                         *)
(***************************************************************************)
EXTENDS Naturals, Sequences, SequencesExt, FiniteSets

CONSTANTS
  Ids,          \* connection ids (UUIDs)
  Groups,       \* what may be entered as a group
  Kinds,        \* credential stores: "keychain", "vault"
  MaxRefs,      \* bound: secrets that are ever saved
  MaxDepth,     \* bound: actions under way at a time
  MaxChecks,    \* bound: checks that run at a time
  Results,      \* how a check ends: "ok", "error"
  None

ASSUME BoundsAssumption ==
  MaxRefs \in Nat /\ MaxDepth \in Nat /\ MaxChecks \in Nat

Auths == {"password", "other"}

Refs == Ids \X Nat

Rows == [auth : Auths, ref : Refs \cup {None}, group : Groups \cup {None},
         status : Results \cup {"none"}]

ASSUME NoneAssumption == None \notin Groups \cup Refs \cup Rows

VARIABLES
  kind,         \* the credential store
  rows,         \* table connections: by id, None if there is no such row
  groups,       \* table connection_groups: the ids
  secrets,      \* references under which the credential store has a secret
  fresh,        \* references made so far
  stack,        \* actions of the GUI thread under way, the innermost last
  checks,       \* by id: the row a running check has loaded
  file,         \* an export file, of this or another installation
  refused,      \* what the database has refused of the last import
  mishaps,      \* history: "edit" (cut off, refused or overlapped), "left" (a
                \* secret not removed), "replaced" (a row, with its reference),
                \* "torn" (the vault)
  deleted,      \* history: connections deleted with success
  wanted        \* history: by id, what the user expects the row to say

vars == <<kind, rows, groups, secrets, fresh, stack, checks, file, refused, mishaps,
          deleted, wanted>>

\* A reference carries the id of the connection it was made for.
Row(auth, ref, group) ==
  [auth |-> auth, ref |-> ref, group |-> group, status |-> "none"]

\* What the user enters of a connection: its settings, or that there is none.
Settings(row) ==
  IF row = None THEN None ELSE [auth |-> row.auth, group |-> row.group]

Init ==
  /\ kind \in Kinds
  /\ rows = [id \in Ids |-> None]
  /\ groups = {} /\ secrets = {} /\ fresh = 0
  /\ stack = <<>>
  /\ checks = [id \in Ids |-> None]
  /\ \E id \in Ids, group \in Groups :
       file = [groups |-> {group},
               rows |-> [i \in {id} |-> Row("password", None, group)]]
  /\ refused = {}
  /\ mishaps = {} /\ deleted = {}
  /\ wanted = [id \in Ids |-> {None}]

-----------------------------------------------------------------------------
(* The GUI thread *)

Frame(op, id, at, row, job, ref) ==
  [op |-> op, id |-> id, at |-> at, row |-> row, job |-> job, ref |-> ref]

Top == stack[Len(stack)]

\* The user can act: no action is under way, or it waits in a job's event loop.
Interactive ==
  IF stack = <<>> THEN TRUE
  ELSE kind = "keychain" /\ Len(stack) < MaxDepth /\ Top.at = "job"

Goes(frame) == stack' = Append(Front(stack), frame)
Returns == stack' = Front(stack)
Mishap(what) == mishaps' = mishaps \cup {what}

\* Another action, past its dialog, is under way for the connection.
Claimed(id, others) ==
  \E k \in 1..Len(others) : others[k].id = id /\ others[k].at # "dialog"

\* The user has confirmed settings that are stored later: until then, and when that
\* fails or is cut off, the row says what it said before.
Confirmed(id, row, others) ==
  wanted' = [wanted EXCEPT ![id] = {Settings(row)}
               \cup IF Claimed(id, others) THEN @ ELSE {Settings(rows[id])}]

\* The settings are stored: from now on they stand, unless the action overlaps others.
Word(id, row, others) ==
  {Settings(row)} \cup IF Claimed(id, others) THEN wanted[id] ELSE {}
Stored(id, row, others) == wanted' = [wanted EXCEPT ![id] = Word(id, row, others)]

\* PRAGMA foreign_keys: the group of a row exists.
Fits(row, present) == row.group = None \/ row.group \in present

\* credentialIsShared
Shared(ref, id) == \E other \in Ids \ {id} : rows[other] # None /\ rows[other].ref = ref

NewRef(id) == <<id, fresh + 1>>

\* ConnectionDialog::accept: what the user may make of the connection it shows.
Entered(row) ==
  {[auth |-> auth, ref |-> row.ref, group |-> group, status |-> row.status] :
     auth \in Auths, group \in Groups \cup {None}}

(* addConnection, ConnectionService::create *)

\* QUuid::createUuid: an id that nothing has carried.
NewIds == {id \in Ids : /\ rows[id] = None /\ id \notin deleted \cup DOMAIN file.rows
                        /\ \A k \in 1..Len(stack) : stack[k].id # id
                        /\ \A ref \in secrets : ref[1] # id}

Add ==
  /\ Interactive
  /\ \E id \in NewIds, row \in Entered(Row("password", None, None)) :
       IF row.auth = "password"
       THEN /\ fresh < MaxRefs
            /\ stack' = Append(stack, Frame("create", id, "job",
                                            [row EXCEPT !.ref = NewRef(id)],
                                            "write", NewRef(id)))
            /\ fresh' = fresh + 1
            /\ Confirmed(id, row, stack)
            /\ UNCHANGED rows
       ELSE /\ IF Fits(row, groups)
               THEN rows' = [rows EXCEPT ![id] = row] /\ Stored(id, row, stack)
               ELSE UNCHANGED <<rows, wanted>>
            /\ UNCHANGED <<stack, fresh>>
  /\ UNCHANGED <<kind, groups, secrets, checks, file, refused, mishaps, deleted>>

\* Mutant: the secret of a connection that cannot be added is left.
CreatedLeaving(f) ==
  IF f.job = "write" /\ f.at = "done" /\ Fits(f.row, groups)
  THEN /\ Returns /\ rows' = [rows EXCEPT ![f.id] = f.row]
       /\ Stored(f.id, f.row, Front(stack))
  ELSE Returns /\ UNCHANGED <<rows, wanted>>

\* The secret is saved, or the save has failed; a row that is refused takes its
\* secret with it.
Created(f) ==
  IF f.job = "remove" \/ f.at = "failed" THEN Returns /\ UNCHANGED <<rows, wanted>>
  ELSE IF Fits(f.row, groups)
  THEN /\ Returns /\ rows' = [rows EXCEPT ![f.id] = f.row]
       /\ Stored(f.id, f.row, Front(stack))
  ELSE /\ Goes([f EXCEPT !.at = "job", !.job = "remove"])
       /\ UNCHANGED <<rows, wanted>>

(* editConnection, ConnectionService::update *)

\* What the dialog shows is read before it is opened.
Ask(op) ==
  /\ Interactive
  /\ \E id \in Ids :
       /\ rows[id] # None
       /\ stack' = Append(stack, Frame(op, id, "dialog", rows[id], None, None))
       /\ mishaps' = mishaps \cup (IF \E k \in 1..Len(stack) : stack[k].id = id
                                   THEN {"edit"} ELSE {})
  /\ UNCHANGED <<kind, rows, groups, secrets, fresh, checks, file, refused, deleted,
                 wanted>>

Cancel ==
  /\ stack # <<>> /\ Top.at = "dialog" /\ Returns
  /\ UNCHANGED <<kind, rows, groups, secrets, fresh, checks, file, refused, mishaps,
                 deleted, wanted>>

\* ConnectionRepository::update writes all columns, as the dialog knows them.
WriteRow(id, row) ==
  /\ Returns
  /\ IF rows[id] # None /\ Fits(row, groups)
     THEN /\ rows' = [rows EXCEPT ![id] = row] /\ Stored(id, row, Front(stack))
          /\ UNCHANGED mishaps
     ELSE Mishap("edit") /\ UNCHANGED <<rows, wanted>>

\* The dialog of action f is accepted with this row, and with a password if given.
Accepted(f, row, given) ==
  LET auth == row.auth
      previous == rows[f.id].ref
      cleared == [row EXCEPT !.ref = None]
      saved == [row EXCEPT !.ref = NewRef(f.id)]
      Job(to, job, ref) == /\ Goes(Frame("edit", f.id, "job", to, job, ref))
                           /\ Confirmed(f.id, to, Front(stack))
                           /\ UNCHANGED <<rows, mishaps>>
  IN CASE rows[f.id] = None \/ (auth = "password" /\ ~given /\ row.ref = None) ->
            Returns /\ UNCHANGED <<rows, fresh, mishaps, wanted>>
       [] rows[f.id] # None /\ auth = "password" /\ given /\ row.ref = None ->
            /\ fresh < MaxRefs /\ fresh' = fresh + 1
            /\ Job(saved, "write", saved.ref)
       [] rows[f.id] # None /\ auth = "password" /\ given /\ row.ref # None ->
            Job(row, "write", row.ref) /\ UNCHANGED fresh
       [] rows[f.id] # None /\ auth = "password" /\ ~given /\ row.ref # None ->
            WriteRow(f.id, row) /\ UNCHANGED fresh
       [] rows[f.id] # None /\ auth = "other" /\ previous # None
          /\ ~Shared(previous, f.id) ->
            Job(cleared, "remove", previous) /\ UNCHANGED fresh
       [] OTHER -> WriteRow(f.id, cleared) /\ UNCHANGED fresh

AcceptEdit ==
  /\ stack # <<>> /\ Top.op = "edit" /\ Top.at = "dialog"
  /\ \E row \in Entered(Top.row), given \in BOOLEAN : Accepted(Top, row, given)
  /\ UNCHANGED <<kind, groups, secrets, checks, file, refused, deleted>>

Edited(f) == IF f.at = "failed" THEN Returns /\ UNCHANGED <<rows, mishaps, wanted>>
             ELSE WriteRow(f.id, f.row)

(* deleteConnection, ConnectionService::remove *)

\* Mutant: the secret goes before the row does.
AcceptDeleteSecretFirst ==
  LET f == Top
      ref == rows[f.id].ref
  IN /\ stack # <<>> /\ f.op = "delete" /\ f.at = "dialog"
     /\ IF rows[f.id] = None THEN Returns /\ UNCHANGED <<rows, deleted, wanted>>
        ELSE IF ref = None \/ Shared(ref, f.id)
        THEN Returns /\ rows' = [rows EXCEPT ![f.id] = None]
             /\ deleted' = deleted \cup {f.id}
             /\ Stored(f.id, None, Front(stack))
        ELSE Goes(Frame("delete", f.id, "job", None, "remove", ref))
             /\ UNCHANGED <<rows, deleted, wanted>>
     /\ UNCHANGED <<kind, groups, secrets, fresh, checks, file, refused, mishaps>>

AcceptDelete ==
  LET f == Top
      ref == rows[f.id].ref
  IN /\ stack # <<>> /\ f.op = "delete" /\ f.at = "dialog"
     /\ IF rows[f.id] = None THEN Returns /\ UNCHANGED <<rows, deleted, wanted>>
        ELSE /\ rows' = [rows EXCEPT ![f.id] = None]
             /\ Stored(f.id, None, Front(stack))
             /\ IF ref = None \/ Shared(ref, f.id)
                THEN Returns /\ deleted' = deleted \cup {f.id}
                ELSE /\ Goes(Frame("delete", f.id, "job", None, "remove", ref))
                     /\ UNCHANGED deleted
     /\ UNCHANGED <<kind, groups, secrets, fresh, checks, file, refused, mishaps>>

Deleted(f) == /\ Returns
              /\ deleted' = IF f.at = "done" THEN deleted \cup {f.id} ELSE deleted

-----------------------------------------------------------------------------
(* The credential store *)

Without(ref) == secrets \ {ref}

\* decryptPayload: a vault cut short while it was written is of no more use.
Readable == "torn" \notin mishaps

\* What a job makes of the store; both stores update what they do not have.
JobDone(f) == IF f.job = "write" THEN secrets \cup {f.ref} ELSE Without(f.ref)

\* The job of any action under way is done, or fails and changes nothing, or, in a
\* vault, fails when its file is already truncated.
RunJob ==
  /\ \E i \in 1..Len(stack) :
       LET f == stack[i]
       IN /\ f.at = "job"
          /\ \/ /\ Readable
                /\ secrets' = JobDone(f)
                /\ stack' = [stack EXCEPT ![i].at = "done"]
                /\ UNCHANGED mishaps
             \/ /\ UNCHANGED secrets
                /\ stack' = [stack EXCEPT ![i].at = "failed"]
                /\ IF f.job = "remove" THEN Mishap("left")
                   ELSE UNCHANGED mishaps
             \/ /\ kind = "vault"
                /\ secrets' = {}
                /\ stack' = [stack EXCEPT ![i].at = "failed"]
                /\ Mishap("torn")
  /\ UNCHANGED <<kind, rows, groups, fresh, checks, file, refused, deleted, wanted>>

\* The event loop of the innermost action returns, and the action goes on.
Resume ==
  LET f == Top
  IN /\ stack # <<>> /\ f.at \in {"done", "failed"}
     /\ CASE f.op = "create" -> Created(f) /\ UNCHANGED <<mishaps, deleted>>
          [] f.op = "edit" -> Edited(f) /\ UNCHANGED deleted
          [] f.op = "delete" -> Deleted(f) /\ UNCHANGED <<rows, mishaps, wanted>>
     /\ UNCHANGED <<kind, groups, secrets, fresh, checks, file, refused>>

\* The program dies.  A vault that was being written is empty: writePayload
\* truncates the file first.
Crash ==
  /\ stack # <<>>
  /\ mishaps' = mishaps \cup {"left"}
                \cup (IF \E i \in 1..Len(stack) : stack[i].op = "edit" THEN {"edit"}
                      ELSE {})
                \cup (IF kind = "vault" /\ Top.at = "job" THEN {"torn"} ELSE {})
  /\ secrets' = IF kind = "vault" /\ Top.at = "job" THEN {} ELSE secrets
  /\ stack' = <<>>
  /\ checks' = [id \in Ids |-> None]
  /\ UNCHANGED <<kind, rows, groups, fresh, file, refused, deleted, wanted>>

-----------------------------------------------------------------------------
(* Export and import: one event of the GUI thread each. *)

\* connectionToJson leaves out secrets and references (an export with passwords reads
\* the secrets, and nothing ever reads them back).
Exported(row) == [row EXCEPT !.ref = None]

Export ==
  /\ Interactive
  /\ file' = [groups |-> groups,
              rows |-> [id \in {i \in Ids : rows[i] # None} |-> Exported(rows[id])]]
  /\ UNCHANGED <<kind, rows, groups, secrets, fresh, stack, checks, refused, mishaps,
                 deleted, wanted>>

Policies == {"Skip", "Replace", "CreateCopy"}

\* importConnections of the serializer: the rows to store, under which ids.
Incoming(policy, copies) ==
  LET known == {id \in DOMAIN file.rows : rows[id] # None}
  IN CASE policy = "Skip" -> [id \in DOMAIN file.rows \ known |-> file.rows[id]]
       [] policy = "Replace" -> file.rows
       [] policy = "CreateCopy" ->
            [id \in (DOMAIN file.rows \ known) \cup {copies[k] : k \in known} |->
               IF id \in DOMAIN file.rows \ known THEN file.rows[id]
               ELSE file.rows[CHOOSE k \in known : copies[k] = id]]

\* Fresh ids for the copies, one each.
Copies(known) ==
  {c \in [known -> NewIds] : \A j, k \in known : c[j] = c[k] => j = k}

\* Mutant: groups are stored last.
PersistedGroupsLast == groups

\* persistGroups comes first.
PersistedGroups == groups \cup file.groups

\* Rows whose group is not there when they are stored.
Refused(incoming) == {id \in DOMAIN incoming : ~Fits(incoming[id], PersistedGroups)}

\* persistConnections stops at the first row that is refused or that cannot be written,
\* as persistGroups does; what was stored before remains.  (An import that the program
\* dies in is one that fails, and then the crash.)
Persisted(incoming, made, stored) ==
  /\ stored # {} => made = file.groups
  /\ groups' = groups \cup made
  /\ rows' = [id \in Ids |-> IF id \in stored THEN incoming[id] ELSE rows[id]]
  /\ refused' = IF made = file.groups THEN Refused(incoming) ELSE {}
  /\ mishaps' = mishaps
       \cup (IF \E id \in stored : rows[id] # None /\ rows[id].ref # None
             THEN {"replaced"} ELSE {})
  /\ deleted' = deleted \ stored
  /\ wanted' = [id \in Ids |-> IF id \in stored THEN Word(id, incoming[id], stack)
                               ELSE wanted[id]]

Import ==
  /\ Interactive
  /\ \E policy \in Policies :
     \E copies \in IF policy = "CreateCopy"
                   THEN Copies({id \in DOMAIN file.rows : rows[id] # None})
                   ELSE {<<>>} :
       LET incoming == Incoming(policy, copies)
       IN \E made \in SUBSET file.groups,
             stored \in SUBSET (DOMAIN incoming \ Refused(incoming)) :
            Persisted(incoming, made, stored)
  /\ UNCHANGED <<kind, secrets, fresh, stack, checks, file>>

-----------------------------------------------------------------------------
(* ConnectivityCheckService::check, in the pool *)

StartCheck ==
  /\ \E id \in Ids :
       /\ checks[id] = None /\ rows[id] # None
       /\ Cardinality({i \in Ids : checks[i] # None}) < MaxChecks
       /\ checks' = [checks EXCEPT ![id] = rows[id]]
  /\ UNCHANGED <<kind, rows, groups, secrets, fresh, stack, file, refused, mishaps,
                 deleted, wanted>>

\* Mutant: the result is stored with the connection as the check has loaded it.
WrittenBack(id, loaded, status) ==
  IF rows[id] = None THEN None ELSE [loaded EXCEPT !.status = status]

\* updateLastSuccessfulCheck, updateLastError: some columns, of a row still there.
StatusWritten(id, loaded, status) ==
  IF rows[id] = None THEN None ELSE [rows[id] EXCEPT !.status = status]

\* As the credential store and the server have answered.
EndCheck ==
  /\ \E id \in Ids :
       /\ checks[id] # None
       /\ \E status \in Results :
            rows' = [rows EXCEPT ![id] = StatusWritten(id, checks[id], status)]
       /\ checks' = [checks EXCEPT ![id] = None]
  /\ UNCHANGED <<kind, groups, secrets, fresh, stack, file, refused, mishaps, deleted,
                 wanted>>

-----------------------------------------------------------------------------
Next == \/ Add \/ Ask("edit") \/ Ask("delete") \/ Cancel \/ AcceptEdit \/ AcceptDelete
        \/ RunJob \/ Resume \/ Crash \/ Export \/ Import \/ StartCheck \/ EndCheck

Spec == Init /\ [][Next]_vars

-----------------------------------------------------------------------------
(* Properties. *)

\* An action that is under way for a connection.
Busy(id) == \E i \in 1..Len(stack) : stack[i].id = id

\* A connection that names a secret finds it in the credential store.  Creating,
\* deleting, importing and checking keep that whatever fails or wherever the program
\* dies; only an edit can break it: when it is cut off, when the database refuses the
\* row (a group that does not exist), when two overlap, or a vault that was torn.
ReferencesAreKept ==
  \A id \in Ids :
    rows[id] # None /\ rows[id].ref # None =>
      \/ rows[id].ref \in secrets
      \/ Busy(id)
      \/ {"edit", "torn"} \cap mishaps # {}

\* A secret belongs to a connection, or to an action that will see to it.  These are
\* the ways in which one is left behind: a removal that the store refuses, an action
\* cut off, an edit whose row is refused or overlapped, an import that replaces the
\* row.  A connection that cannot be added leaves none.
SecretsAreOwned ==
  \A ref \in secrets :
    \/ \E id \in Ids : rows[id] # None /\ rows[id].ref = ref
    \/ Busy(ref[1])
    \/ {"edit", "left", "replaced"} \cap mishaps # {}

\* What this program or another installation has exported can be imported under every
\* policy, with the groups of its connections: the database refuses no row of it.
OwnExportImports == refused = {}

\* A connection is as the user has left it.  What was confirmed last and stored stands;
\* what was confirmed and is not stored yet, has failed or was cut off by a crash leaves
\* the settings that were there before.  A check that began before an edit, a deletion
\* or an import takes nothing back when it ends, and no crash or failed job leaves
\* settings that nobody has entered.  Of actions that overlap, or that an import
\* overlaps, either may stand.
ConfirmedStands == \A id \in Ids : Settings(rows[id]) \in wanted[id]
=============================================================================
