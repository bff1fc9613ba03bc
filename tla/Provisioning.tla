---------------------------- MODULE Provisioning ----------------------------
(***************************************************************************)
(* `cli setup`, `cli account create` and `make nuke`: how API keys come    *)
(* into being.  The database keeps only the hash of a key; the key itself  *)
(* exists in the memory of the command that drew it until it is appended   *)
(* to local/accounts.csv, which the smoke client reads.  A command is a    *)
(* process p, and its accounts are <<p, 1>>, ..., <<p, Count>>.            *)
(*                                                                         *)
(*   bucket, migrate   setup only                                          *)
(*   insert            the accounts are about to be committed              *)
(*   check, open, write                                                    *)
(*                     at out.exists(), at out.open("a"), and at the close *)
(*                     of the file, which is when the rows reach it        *)
(***************************************************************************)
EXTENDS Naturals, Sequences, FiniteSets, SequencesExt

CONSTANTS
  Commands,     \* runs of the command line tool
  Count,        \* --count: accounts per command
  MaxRunning,   \* bound: commands that run at a time
  MaxCrashes,   \* bound: commands that end early
  Header,       \* the line that names the columns
  NoFile        \* accounts.csv does not exist

ASSUME CountAssumption == Count \in Nat \ {0}
ASSUME RunningAssumption == MaxRunning \in Nat \ {0} /\ MaxCrashes \in Nat

(* A line of the file is the header or a row, and having no file is not    *)
(* having an empty one.                                                    *)
Account == Commands \X (1..Count)
Line == Account \cup {Header}
ASSUME FileAssumption == Header \notin Account /\ NoFile \notin Seq(Line)

VARIABLES
  ppc,        \* where each command is
  header,     \* write_header of each command
  bucket,     \* the S3 bucket exists
  schema,     \* the tables exist
  accounts,   \* committed account rows
  file,       \* the lines of accounts.csv, or NoFile
  nuking,     \* `make nuke` has removed the file, not yet the volumes
  crashes,
  overlapped  \* history: two commands have run side by side

vars == <<ppc, header, bucket, schema, accounts, file, nuking, crashes, overlapped>>
env == <<bucket, schema, nuking, overlapped>>

Rows(p) == [i \in 1..Count |-> <<p, i>>]
Running == {p \in Commands : ppc[p] \notin {"idle", "done", "ended"}}

Init == /\ ppc = [p \in Commands |-> "idle"]
        /\ header = [p \in Commands |-> FALSE]
        /\ bucket = FALSE
        /\ schema = FALSE
        /\ accounts = {}
        /\ file = NoFile
        /\ nuking = FALSE
        /\ crashes = 0
        /\ overlapped = FALSE

Goto(p, from, to) == ppc[p] = from /\ ppc' = [ppc EXCEPT ![p] = to]

(***************************************************************************)
(* The commands.                                                           *)
(***************************************************************************)
Start(p) == /\ ~nuking
            /\ Cardinality(Running) < MaxRunning
            /\ \/ Goto(p, "idle", "bucket")      \* cli setup
               \/ Goto(p, "idle", "insert")      \* cli account create
            /\ overlapped' = (overlapped \/ Running # {})
            /\ UNCHANGED <<header, accounts, file, bucket, schema, nuking, crashes>>

(* A bucket that is already ours is no error. *)
EnsureBucket(p) == /\ Goto(p, "bucket", "migrate")
                   /\ bucket' = TRUE
                   /\ UNCHANGED <<header, accounts, file, schema, nuking, crashes, overlapped>>

Migrate(p) == /\ Goto(p, "migrate", "insert")
              /\ schema' = TRUE
              /\ UNCHANGED <<header, accounts, file, bucket, nuking, crashes, overlapped>>

(* Mutant: flushed, never committed. *)
MutantCommitAccounts(p) ==
  /\ Goto(p, "insert", IF schema THEN "check" ELSE "ended")
  /\ UNCHANGED <<header, accounts, file, env, crashes>>

(* All accounts of the command in one transaction; without tables it ends. *)
CommitAccounts(p) ==
  /\ Goto(p, "insert", IF schema THEN "check" ELSE "ended")
  /\ accounts' = IF schema THEN accounts \cup {<<p, i>> : i \in 1..Count} ELSE accounts
  /\ UNCHANGED <<header, file, env, crashes>>

(* Mutant: the test comes after the file was opened. *)
MutantCheckHeader(p) ==
  /\ Goto(p, "check", "open")
  /\ header' = [header EXCEPT ![p] = FALSE]
  /\ UNCHANGED <<accounts, file, env, crashes>>

CheckHeader(p) ==
  /\ Goto(p, "check", "open")
  /\ header' = [header EXCEPT ![p] = file = NoFile]
  /\ UNCHANGED <<accounts, file, env, crashes>>

(* Opening for appending creates an empty file. *)
OpenFile(p) ==
  /\ Goto(p, "open", "write")
  /\ file' = IF file = NoFile THEN <<>> ELSE file
  /\ UNCHANGED <<header, accounts, env, crashes>>

(* Mutant: the file is opened for writing, not for appending. *)
MutantWriteRows(p) ==
  /\ Goto(p, "write", "done")
  /\ file' = <<Header>> \o Rows(p)
  /\ UNCHANGED <<header, accounts, env, crashes>>

(* Header and rows leave the buffer together. *)
WriteRows(p) ==
  /\ Goto(p, "write", "done")
  /\ file' = file \o (IF header[p] THEN <<Header>> ELSE <<>>) \o Rows(p)
  /\ UNCHANGED <<header, accounts, env, crashes>>

(* Interrupted, killed, or ended by an exception, anywhere. *)
Crash(p) ==
  /\ p \in Running
  /\ crashes < MaxCrashes
  /\ ppc' = [ppc EXCEPT ![p] = "ended"]
  /\ crashes' = crashes + 1
  /\ UNCHANGED <<header, accounts, file, env>>

(***************************************************************************)
(* make nuke, run while no command runs: first the file, then the volumes. *)
(***************************************************************************)
NukeFile ==
  /\ Running = {} /\ ~nuking
  /\ nuking' = TRUE
  /\ file' = NoFile
  /\ UNCHANGED <<ppc, header, bucket, schema, accounts, crashes, overlapped>>

NukeVolumes ==
  /\ nuking
  /\ nuking' = FALSE
  /\ accounts' = {} /\ schema' = FALSE /\ bucket' = FALSE
  /\ UNCHANGED <<ppc, header, file, crashes, overlapped>>

(* docker compose fails and make stops. *)
NukeAborted ==
  /\ nuking
  /\ crashes < MaxCrashes
  /\ nuking' = FALSE
  /\ crashes' = crashes + 1
  /\ UNCHANGED <<ppc, header, bucket, schema, accounts, file, overlapped>>

Command(p) == \/ Start(p) \/ EnsureBucket(p) \/ Migrate(p) \/ CommitAccounts(p)
              \/ CheckHeader(p) \/ OpenFile(p) \/ WriteRows(p)

Next == \/ \E p \in Commands : Command(p) \/ Crash(p)
        \/ NukeFile \/ NukeVolumes \/ NukeAborted

Spec == Init /\ [][Next]_vars

(***************************************************************************)
(* What the file is good for.                                              *)
(***************************************************************************)
Lines == IF file = NoFile THEN {} ELSE ToSet(file)
Keys == Lines \ {Header}

(* PipelineClient._load_api_key takes the api_key column of the first row, *)
(* the columns being named by the first line; anything else raises.        *)
LoadsApiKey(key) == file # NoFile /\ Len(file) > 1 /\ file[1] = Header /\ file[2] = key

AtRest == Running = {} /\ ~nuking

(* Every key in accounts.csv authenticates: the file is written only after *)
(* the commit, and removed before the database it speaks of, whichever     *)
(* commands run side by side, crash, or find a half-wiped environment.     *)
KeysAuthenticate == Keys \subseteq accounts

(* Nothing cut short: no account exists whose key nobody has, although     *)
(* commands append to one file side by side.                               *)
AccountsHaveKeys == AtRest /\ crashes = 0 => accounts \subseteq Keys

(* Header and rows, however, are in order only when commands also follow   *)
(* each other: each tests for the file before it opens it.                 *)
Orderly == crashes = 0 /\ ~overlapped

(* After orderly commands the smoke client finds a key that authenticates  *)
(* as soon as there is an account.                                         *)
ClientCanLoad ==
  AtRest /\ Orderly /\ accounts # {} => \E key \in accounts : LoadsApiKey(key)

(* test_account: across calls, the header is written exactly once. *)
HeaderOnce ==
  AtRest /\ Orderly /\ file # NoFile =>
    Cardinality({i \in 1..Len(file) : file[i] = Header}) = 1
=============================================================================
