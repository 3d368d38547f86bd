----------------------------- MODULE KeyRotation -----------------------------
(***************************************************************************)
(* Moving every stored secret from one envelope key to the next            *)
(* (app/rotate_encryption.py, core/security.py) while API processes keep   *)
(* writing secrets, under the ceremony of docs/runbooks/kms-rotation.md:   *)
(* processes that can read both keys are restarted one by one with the new *)
(* key active, the job re-encrypts what it finds under the old key, and    *)
(* the old key goes once a dry run reports nothing left.                   *)
(***************************************************************************)
EXTENDS Naturals

CONSTANTS
    Bundles,        \* secrets: credential bundles, webhook secrets, MFA seeds, mails
    Processes,      \* API processes
    MaxSecrets      \* bound: times an owner replaces a secret

ASSUME RotationAssumption == MaxSecrets \in Nat

VARIABLES
    row,        \* what the table holds
    process,    \* the active key of each process and its transaction
    job,        \* the rotation job
    ceremony,   \* rotating, verified (dry run reported zero) or retired
    told,       \* the secret the owner was told last
    raced       \* rows an owner wrote between the job's read and its commit

rotationVars == <<row, process, job, ceremony, told, raced>>

Keys == {"old", "new"}
Secrets == 0..MaxSecrets        \* 0: no row yet

\* "key" is part of the ciphertext, "column" is encryption_key_version.
StoredRows == [secret : Secrets, key : Keys, column : Keys]
ProcessRows ==
    [key : Keys, writes : Bundles \cup {"nothing"}, column : Keys \cup {"none"}]

RotationTypeOK ==
    /\ row \in [Bundles -> StoredRows]
    /\ process \in [Processes -> ProcessRows]
    /\ job \in [running : BOOLEAN, saw : [Bundles -> StoredRows]]
    /\ ceremony \in {"rotating", "verified", "retired"}
    /\ told \in [Bundles -> Secrets]
    /\ raced \subseteq Bundles

NoRows == [r \in Bundles |-> [secret |-> 0, key |-> "old", column |-> "old"]]
Quiet(key) == [key |-> key, writes |-> "nothing", column |-> "none"]

RotationInit ==
    /\ row = NoRows
    /\ process = [p \in Processes |-> Quiet("old")]
    /\ job = [running |-> FALSE, saw |-> NoRows]
    /\ ceremony = "rotating"
    /\ told = [r \in Bundles |-> 0]
    /\ raced = {}

Stored(r) == row[r].secret > 0

StaleByColumn(stored) == stored.column = "old"      \* mutant: trusts the column
Stale(stored) == stored.key = "old"

(***************************************************************************)
(* The API: create a secret, or replace it (rotate_webhook_secret).        *)
(***************************************************************************)
BeginWrite(p, r) ==
    /\ process[p].writes = "nothing"
    /\ told[r] < MaxSecrets
    /\ process' = [process EXCEPT ![p].writes = r,
                                  ![p].column = IF Stored(r) THEN row[r].column ELSE "none"]
    /\ UNCHANGED <<row, job, ceremony, told, raced>>

\* The ORM writes the column only if it differs from the value it loaded.
CommitWrite(p) ==
    LET r == process[p].writes
        key == process[p].key
    IN  /\ r \in Bundles
        /\ process[p].column = "none" => ~Stored(r)
        /\ told[r] < MaxSecrets
        /\ row' = [row EXCEPT ![r] =
              [secret |-> told[r] + 1, key |-> key,
               column |-> IF key = process[p].column THEN @.column ELSE key]]
        /\ told' = [told EXCEPT ![r] = @ + 1]
        /\ raced' = IF job.running /\ job.saw[r].secret > 0 /\ Stale(job.saw[r])
                    THEN raced \cup {r} ELSE raced \ {r}
        /\ process' = [process EXCEPT ![p] = Quiet(key)]
        /\ UNCHANGED <<job, ceremony>>

\* A restart with the new key active ends what the process was doing.
Switch(p) ==
    /\ process' = [process EXCEPT ![p] = Quiet("new")]
    /\ UNCHANGED <<row, job, ceremony, told, raced>>

(***************************************************************************)
(* The job: rotate(apply=True) reads every row, then writes and commits.   *)
(***************************************************************************)
JobReads ==
    /\ ~job.running
    /\ job' = [running |-> TRUE, saw |-> row]
    /\ UNCHANGED <<row, process, ceremony, told, raced>>

Reencrypted(r) ==
    IF job.saw[r].secret > 0 /\ Stale(job.saw[r])
    THEN [secret |-> job.saw[r].secret, key |-> "new",
          column |-> IF job.saw[r].column = "new" THEN row[r].column ELSE "new"]
    ELSE row[r]

JobCommits ==
    /\ job.running
    /\ row' = [r \in Bundles |-> Reencrypted(r)]
    /\ job' = [running |-> FALSE, saw |-> NoRows]
    /\ UNCHANGED <<process, ceremony, told, raced>>

JobFails ==
    /\ job.running
    /\ job' = [running |-> FALSE, saw |-> NoRows]
    /\ UNCHANGED <<row, process, ceremony, told, raced>>

(***************************************************************************)
(* The ceremony (steps 5 to 12): a dry run once every process is switched. *)
(***************************************************************************)
DryRun ==
    /\ ceremony = "rotating"
    /\ \A p \in Processes : process[p].key = "new"
    /\ \A r \in Bundles : Stored(r) => ~Stale(row[r])
    /\ ceremony' = "verified"
    /\ UNCHANGED <<row, process, job, told, raced>>

Retire ==
    /\ ceremony = "verified"
    /\ ceremony' = "retired"
    /\ UNCHANGED <<row, process, job, told, raced>>

ProcessStep(p) == (\E r \in Bundles : BeginWrite(p, r)) \/ CommitWrite(p) \/ Switch(p)

RotationNext ==
    \/ \E p \in Processes : ProcessStep(p)
    \/ JobReads \/ JobCommits \/ JobFails
    \/ DryRun \/ Retire

RotationSpec == RotationInit /\ [][RotationNext]_rotationVars

-----------------------------------------------------------------------------
\* Rotation loses nothing: once the old key is retired no stored secret still
\* needs it, and a stored secret is the one its owner was told last, except in
\* rows the owner wrote while the job held the earlier ciphertext.
RotationLosesNothing ==
    \A r \in Bundles :
        /\ ceremony = "retired" /\ Stored(r) => row[r].key = "new"
        /\ r \notin raced => row[r].secret = told[r]

=============================================================================
