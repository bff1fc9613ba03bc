------------------------- MODULE ProvisioningProofs -------------------------
(***************************************************************************)
(* Proofs about account provisioning, for any number of commands and of    *)
(* accounts per command, however many commands run side by side and        *)
(* whichever of them end early.                                            *)
(***************************************************************************)
EXTENDS Provisioning, FiniteSetTheorems, TLAPS

Steps == {"idle", "bucket", "migrate", "insert", "check", "open", "write", "done", "ended"}
Writing == {"check", "open", "write"}

TypeInv ==
  /\ ppc \in [Commands -> Steps]
  /\ header \in [Commands -> BOOLEAN]
  /\ accounts \subseteq Account
  /\ file \in Seq(Line) \cup {NoFile}
  /\ crashes \in Nat

(***************************************************************************)
(* The inductive invariant.                                                *)
(***************************************************************************)

(* A command that has opened the file still has it: `make nuke` waits. *)
Opened == \A p \in Commands : ppc[p] = "write" => file # NoFile

NukeAlone == nuking => file = NoFile /\ Running = {}

(* The keys a command is about to write belong to committed accounts. *)
Committed ==
  \A p \in Commands, i \in 1..Count : ppc[p] \in Writing => <<p, i>> \in accounts

(* Nothing cut short: the key of an account is in the file, or in the      *)
(* memory of the command that drew it.                                     *)
KeysKept ==
  crashes = 0 /\ ~nuking =>
    \A p \in Commands, i \in 1..Count :
      <<p, i>> \in accounts => <<p, i>> \in Keys \/ ppc[p] \in Writing

FileInv == TypeInv /\ Opened /\ NukeAlone /\ Committed /\ KeysAuthenticate /\ KeysKept

(***************************************************************************)
(* The lines of the file.                                                  *)
(***************************************************************************)

(* The rows of a command are lines of the file. *)
LEMMA RowsType ==
  ASSUME NEW p \in Commands
  PROVE  /\ Rows(p) \in Seq(Line)
         /\ Len(Rows(p)) = Count
         /\ \A i \in 1..Count : Rows(p)[i] = <<p, i>>
BY CountAssumption DEF Rows, Line, Account

(* The set of the lines of a file. *)
LEMMA InFile ==
  ASSUME NEW s \in Seq(Line), NEW x
  PROVE  x \in ToSet(s) <=> \E i \in 1..Len(s) : s[i] = x
BY DEF ToSet

(* An empty file is a file. *)
LEMMA EmptyFile == <<>> \in Seq(Line) /\ <<>> # NoFile /\ ToSet(<<>>) = {}
<1>1. <<>> \in Seq(Line)
  OBVIOUS
<1>2. <<>> # NoFile
  BY <1>1, FileAssumption, Zenon
<1>3. ToSet(<<>>) = {}
  BY DEF ToSet
<1>4. QED
  BY <1>1, <1>2, <1>3

(* Appending adds exactly what is appended. *)
LEMMA AppendedLines ==
  ASSUME NEW s \in Seq(Line), NEW t \in Seq(Line)
  PROVE  /\ s \o t \in Seq(Line)
         /\ ToSet(s \o t) = ToSet(s) \cup ToSet(t)
<1>1. /\ s \o t \in Seq(Line)
      /\ Len(s) \in Nat /\ Len(t) \in Nat
      /\ Len(s \o t) = Len(s) + Len(t)
      /\ \A i \in 1..Len(s) : (s \o t)[i] = s[i]
      /\ \A i \in 1..Len(t) : (s \o t)[Len(s) + i] = t[i]
  OBVIOUS
<1>2. ASSUME NEW x \in ToSet(s \o t)
      PROVE  x \in ToSet(s) \cup ToSet(t)
  <2>1. PICK i \in 1..Len(s \o t) : (s \o t)[i] = x
    BY <1>1, <1>2, InFile
  <2>2. CASE i <= Len(s)
    <3>1. i \in 1..Len(s) /\ s[i] = x
      BY <1>1, <2>1, <2>2
    <3>2. QED
      BY <3>1, InFile
  <2>3. CASE i > Len(s)
    <3>1. i - Len(s) \in 1..Len(t) /\ i = Len(s) + (i - Len(s))
      BY <1>1, <2>3
    <3>2. t[i - Len(s)] = x
      BY <1>1, <2>1, <3>1
    <3>3. QED
      BY <3>1, <3>2, InFile
  <2>4. QED
    BY <1>1, <2>2, <2>3
<1>3. ASSUME NEW x \in ToSet(s)
      PROVE  x \in ToSet(s \o t)
  <2>1. PICK i \in 1..Len(s) : s[i] = x
    BY <1>3, InFile
  <2>2. i \in 1..Len(s \o t) /\ (s \o t)[i] = x
    BY <1>1, <2>1
  <2>3. QED
    BY <1>1, <2>2, InFile
<1>4. ASSUME NEW x \in ToSet(t)
      PROVE  x \in ToSet(s \o t)
  <2>1. PICK i \in 1..Len(t) : t[i] = x
    BY <1>4, InFile
  <2>2. Len(s) + i \in 1..Len(s \o t) /\ (s \o t)[Len(s) + i] = x
    BY <1>1, <2>1
  <2>3. QED
    BY <1>1, <2>2, InFile
<1>5. QED
  BY <1>1, <1>2, <1>3, <1>4

(* WriteRows adds the keys of its command, and no others. *)
LEMMA WrittenKeys ==
  ASSUME NEW p \in Commands, file \in Seq(Line), header[p] \in BOOLEAN, WriteRows(p)
  PROVE  /\ file' \in Seq(Line)
         /\ file' # NoFile
         /\ Keys' = Keys \cup {<<p, i>> : i \in 1..Count}
<1> DEFINE top == IF header[p] THEN <<Header>> ELSE <<>>
<1>1. file' = file \o top \o Rows(p)
  BY DEF WriteRows
<1>2. top \in Seq(Line) /\ ToSet(top) \subseteq {Header}
  <2>1. <<Header>> \in Seq(Line) /\ <<>> \in Seq(Line)
    BY DEF Line
  <2>2. top \in Seq(Line) /\ \A i \in 1..Len(top) : top[i] = Header
    BY <2>1
  <2>3. QED
    BY <2>2, InFile
<1>3. Rows(p) \in Seq(Line) /\ ToSet(Rows(p)) = {<<p, i>> : i \in 1..Count}
  BY CountAssumption, RowsType DEF ToSet, Rows
<1> HIDE DEF top
<1>4. /\ file \o top \in Seq(Line)
      /\ ToSet(file \o top) = ToSet(file) \cup ToSet(top)
  BY <1>2, AppendedLines
<1>5. /\ file' \in Seq(Line)
      /\ ToSet(file') = ToSet(file) \cup ToSet(top) \cup {<<p, i>> : i \in 1..Count}
  BY <1>1, <1>3, <1>4, AppendedLines
<1>6. file # NoFile /\ file' # NoFile
  BY <1>5, FileAssumption
<1>7. Header \notin {<<p, i>> : i \in 1..Count}
  BY FileAssumption DEF Account
<1>8. QED
  BY <1>2, <1>5, <1>6, <1>7 DEF Keys, Lines

(***************************************************************************)
(* Keys and accounts.                                                      *)
(***************************************************************************)

(* Nothing exists at first. *)
LEMMA FileInit == Init => FileInv
BY FileAssumption
   DEF Init, FileInv, TypeInv, Opened, NukeAlone, Committed, KeysAuthenticate, KeysKept, Keys,
       Lines, Running, Steps, Writing

(* A command that has neither drawn keys nor touched the file. *)
LEMMA EarlyStep ==
  ASSUME FileInv, NEW p \in Commands, Start(p) \/ EnsureBucket(p) \/ Migrate(p)
  PROVE  FileInv'
<1>1. /\ ppc[p] \in {"idle", "bucket", "migrate"}
      /\ \E to \in {"bucket", "migrate", "insert"} : ppc' = [ppc EXCEPT ![p] = to]
      /\ UNCHANGED <<header, accounts, file, nuking, crashes>>
  BY DEF Start, EnsureBucket, Migrate, Goto
<1>2. ~nuking
  BY DEF FileInv, NukeAlone, Running, Start, EnsureBucket, Migrate, Goto
<1>3. QED
  BY <1>1, <1>2
     DEF FileInv, TypeInv, Opened, NukeAlone, Committed, KeysAuthenticate, KeysKept, Keys, Lines,
         Steps, Writing

(* The accounts are committed before their keys are written. *)
LEMMA CommitStep ==
  ASSUME FileInv, NEW p \in Commands, CommitAccounts(p)
  PROVE  FileInv'
<1>1. ~nuking /\ nuking' = nuking
  BY DEF FileInv, NukeAlone, Running, CommitAccounts, Goto, env
<1>2. TypeInv'
  BY DEF FileInv, TypeInv, CommitAccounts, Goto, Steps, Account
<1>3. accounts \subseteq accounts'
  BY DEF CommitAccounts
<1>4. Committed'
  BY <1>3 DEF FileInv, TypeInv, Committed, CommitAccounts, Goto, Writing
<1>5. Opened' /\ NukeAlone' /\ KeysAuthenticate'
  BY <1>1, <1>3
     DEF FileInv, TypeInv, Opened, NukeAlone, KeysAuthenticate, Keys, Lines, CommitAccounts, Goto
<1>6. KeysKept'
  BY <1>1 DEF FileInv, TypeInv, KeysKept, Keys, Lines, CommitAccounts, Goto, Writing, Account
<1>7. QED
  BY <1>2, <1>4, <1>5, <1>6 DEF FileInv

(* Testing for the file and opening it: an empty file holds no key. *)
LEMMA OpenStep ==
  ASSUME FileInv, NEW p \in Commands, CheckHeader(p) \/ OpenFile(p)
  PROVE  FileInv'
<1>1. ~nuking /\ nuking' = nuking
  BY DEF FileInv, NukeAlone, Running, CheckHeader, OpenFile, Goto, env
<1>2. <<>> \in Seq(Line) /\ <<>> # NoFile /\ ToSet(<<>>) = {}
  BY EmptyFile
<1>3. TypeInv'
  BY <1>2 DEF FileInv, TypeInv, CheckHeader, OpenFile, Goto, Steps
<1>4. Keys' = Keys
  <2>1. CASE UNCHANGED file
    BY <2>1 DEF Keys, Lines
  <2>2. CASE file = NoFile /\ file' = <<>>
    <3>1. file' # NoFile /\ ToSet(file') = {}
      BY <1>2, <2>2, Zenon
    <3>2. QED
      BY <2>2, <3>1 DEF Keys, Lines
  <2>3. QED
    BY <2>1, <2>2 DEF CheckHeader, OpenFile
<1>5. /\ ppc[p] \in {"check", "open"}
      /\ \E to \in {"open", "write"} : ppc' = [ppc EXCEPT ![p] = to]
      /\ UNCHANGED <<accounts, crashes>>
  BY DEF CheckHeader, OpenFile, Goto
<1>6. Opened'
  BY <1>2 DEF FileInv, TypeInv, Opened, CheckHeader, OpenFile, Goto
<1>7. NukeAlone' /\ Committed' /\ KeysAuthenticate' /\ KeysKept'
  BY <1>1, <1>4, <1>5
     DEF FileInv, TypeInv, NukeAlone, Committed, KeysAuthenticate, KeysKept, Writing
<1>8. QED
  BY <1>3, <1>6, <1>7 DEF FileInv

(* The keys that are written belong to the accounts that were committed. *)
LEMMA WriteStep ==
  ASSUME FileInv, NEW p \in Commands, WriteRows(p)
  PROVE  FileInv'
<1>1. /\ ppc[p] = "write" /\ ppc' = [ppc EXCEPT ![p] = "done"]
      /\ UNCHANGED <<header, accounts, crashes, nuking>>
  BY DEF WriteRows, Goto, env
<1>2. ~nuking /\ file \in Seq(Line) /\ header[p] \in BOOLEAN
  BY <1>1 DEF FileInv, TypeInv, NukeAlone, Opened, Running
<1>3. /\ file' \in Seq(Line) /\ file' # NoFile
      /\ Keys' = Keys \cup {<<p, i>> : i \in 1..Count}
  BY <1>2, WrittenKeys
<1>4. TypeInv' /\ Opened' /\ NukeAlone' /\ Committed'
  BY <1>1, <1>2, <1>3 DEF FileInv, TypeInv, Opened, NukeAlone, Committed, Steps, Writing
<1>5. KeysAuthenticate'
  BY <1>1, <1>3 DEF FileInv, KeysAuthenticate, Committed, Writing
<1>6. KeysKept'
  BY <1>1, <1>3 DEF FileInv, TypeInv, KeysKept, Writing
<1>7. QED
  BY <1>4, <1>5, <1>6 DEF FileInv

(* A command that ends early may take keys with it, and is counted. *)
LEMMA CrashStep ==
  ASSUME FileInv, NEW p \in Commands, Crash(p)
  PROVE  FileInv'
<1>1. ~nuking /\ UNCHANGED <<header, accounts, file, nuking>>
  BY DEF FileInv, NukeAlone, Crash, env
<1>2. crashes' = crashes + 1 /\ ppc' = [ppc EXCEPT ![p] = "ended"]
  BY DEF Crash
<1>3. QED
  BY <1>1, <1>2
     DEF FileInv, TypeInv, Opened, NukeAlone, Committed, KeysAuthenticate, KeysKept, Keys, Lines,
         Steps, Writing

(* `make nuke` removes the file first, and runs alone. *)
LEMMA NukeStep ==
  ASSUME FileInv, NukeFile \/ NukeVolumes \/ NukeAborted
  PROVE  FileInv'
<1> USE DEF FileInv, TypeInv, Opened, NukeAlone, Committed, KeysAuthenticate, KeysKept, Keys,
            Lines, Running, Writing
<1>1. CASE NukeFile
  BY <1>1 DEF NukeFile
<1>2. CASE NukeVolumes
  BY <1>2 DEF NukeVolumes
<1>3. CASE NukeAborted
  BY <1>3 DEF NukeAborted
<1>4. QED
  BY <1>1, <1>2, <1>3

(* The invariant is kept by every step. *)
LEMMA FileAlways == Spec => []FileInv
<1>1. FileInv /\ [Next]_vars => FileInv'
  <2> SUFFICES ASSUME FileInv, [Next]_vars
               PROVE  FileInv'
    OBVIOUS
  <2>1. CASE UNCHANGED vars
    BY <2>1
       DEF vars, FileInv, TypeInv, Opened, NukeAlone, Committed, KeysAuthenticate, KeysKept,
           Keys, Lines, Running
  <2>2. QED
    BY <2>1, EarlyStep, CommitStep, OpenStep, WriteStep, CrashStep, NukeStep DEF Next, Command
<1>2. QED
  BY FileInit, <1>1, PTL DEF Spec

(* Every key in accounts.csv authenticates, whichever commands run side by *)
(* side, end early, or find a half-wiped environment: rows are appended    *)
(* only after the commit, and `make nuke` removes the file first.          *)
THEOREM KeysAlwaysAuthenticate == Spec => []KeysAuthenticate
<1>1. FileInv => KeysAuthenticate
  BY DEF FileInv
<1>2. QED
  BY FileAlways, <1>1, PTL

(* As long as nothing is cut short no account is left without its key,     *)
(* although commands append to one file side by side.                      *)
THEOREM AccountsAlwaysHaveKeys == Spec => []AccountsHaveKeys
<1>1. FileInv => AccountsHaveKeys
  BY DEF FileInv, TypeInv, KeysKept, AccountsHaveKeys, AtRest, Running, Writing, Account
<1>2. QED
  BY FileAlways, <1>1, PTL

(***************************************************************************)
(* Header and rows, when commands follow each other.                       *)
(***************************************************************************)

(* Until two commands have run side by side there is at most one. *)
OneAtATime == ~overlapped => \A p, q \in Running : p = q

(* What out.exists() said is still so when the file is opened; the file is *)
(* then empty when the rows are written.                                   *)
HeaderRight ==
  Orderly => \A p \in Commands :
    /\ ppc[p] = "open" => (header[p] <=> file = NoFile)
    /\ ppc[p] = "write" => (header[p] <=> Len(file) = 0)

(* The header, the row of an account, and no other header. *)
WellFormed == /\ file # NoFile
              /\ Len(file) > 1
              /\ file[1] = Header
              /\ file[2] \in accounts
              /\ \A i \in 2..Len(file) : file[i] # Header

FileTidy ==
  Orderly => \/ file = NoFile
             \/ WellFormed
             \/ Len(file) = 0 /\ \E p \in Commands : ppc[p] = "write"

TidyInv == OneAtATime /\ HeaderRight /\ FileTidy

(* No command has run at first. *)
LEMMA TidyInit == Init => TidyInv
BY DEF Init, TidyInv, OneAtATime, HeaderRight, FileTidy, Running

(* A step of a command that is running keeps all but one out. *)
LEMMA AloneStep ==
  ASSUME FileInv, OneAtATime, [Next]_vars
  PROVE  OneAtATime'
<1>1. ASSUME NEW p \in Commands, Start(p)
      PROVE  OneAtATime'
  <2>1. overlapped' = (overlapped \/ Running # {})
    BY <1>1 DEF Start
  <2>2. Running' \subseteq Running \cup {p}
    BY <1>1 DEF FileInv, TypeInv, Running, Start, Goto
  <2>3. QED
    BY <2>1, <2>2 DEF OneAtATime
<1>2. ASSUME Running' \subseteq Running, UNCHANGED overlapped
      PROVE  OneAtATime'
  BY <1>2 DEF OneAtATime
<1>3. ASSUME NEW p \in Commands, Command(p) \/ Crash(p), ~Start(p)
      PROVE  Running' \subseteq Running /\ UNCHANGED overlapped
  BY <1>3
     DEF Command, EnsureBucket, Migrate, CommitAccounts, CheckHeader, OpenFile, WriteRows,
         Crash, Goto, env, FileInv, TypeInv, Running
<1>4. ASSUME NukeFile \/ NukeVolumes \/ NukeAborted \/ UNCHANGED vars
      PROVE  Running' \subseteq Running /\ UNCHANGED overlapped
  BY <1>4 DEF NukeFile, NukeVolumes, NukeAborted, vars, Running
<1>5. QED
  BY <1>1, <1>2, <1>3, <1>4 DEF Next

(* Before a command opens the file nothing in it changes. *)
LEMMA TidyEarly ==
  ASSUME FileInv, TidyInv, NEW p \in Commands,
         Start(p) \/ EnsureBucket(p) \/ Migrate(p) \/ CommitAccounts(p)
  PROVE  HeaderRight' /\ FileTidy'
<1>1. /\ ppc[p] \in {"idle", "bucket", "migrate", "insert"}
      /\ \E to \in {"bucket", "migrate", "insert", "check", "ended"} :
           ppc' = [ppc EXCEPT ![p] = to]
      /\ UNCHANGED <<header, file, crashes>>
  BY DEF Start, EnsureBucket, Migrate, CommitAccounts, Goto
<1>2. accounts \subseteq accounts' /\ (~overlapped' => ~overlapped)
  <2>1. CASE Start(p)
    BY <2>1 DEF Start
  <2>2. CASE EnsureBucket(p) \/ Migrate(p) \/ CommitAccounts(p)
    BY <2>2 DEF EnsureBucket, Migrate, CommitAccounts, env
  <2>3. QED
    BY <2>1, <2>2
<1>3. Orderly' => Orderly
  BY <1>1, <1>2 DEF Orderly
<1>4. HeaderRight'
  BY <1>1, <1>3 DEF FileInv, TypeInv, TidyInv, HeaderRight
<1>5. WellFormed => WellFormed'
  BY <1>1, <1>2 DEF WellFormed
<1>6. FileTidy'
  <2> SUFFICES ASSUME Orderly', file' # NoFile, ~WellFormed'
               PROVE  Len(file') = 0 /\ \E q \in Commands : ppc'[q] = "write"
    BY DEF FileTidy
  <2>1. Len(file) = 0 /\ \E q \in Commands : ppc[q] = "write"
    BY <1>1, <1>3, <1>5 DEF TidyInv, FileTidy
  <2>2. QED
    BY <1>1, <2>1 DEF FileInv, TypeInv
<1>7. QED
  BY <1>4, <1>6

(* Between the test and the opening, and between the opening and the       *)
(* writing, nobody else is there to change the file.                       *)
LEMMA TidyOpen ==
  ASSUME FileInv, TidyInv, NEW p \in Commands, CheckHeader(p) \/ OpenFile(p)
  PROVE  HeaderRight' /\ FileTidy'
<1>1. UNCHANGED <<accounts, crashes, overlapped>>
  BY DEF CheckHeader, OpenFile, env
<1> SUFFICES ASSUME Orderly'
             PROVE  HeaderRight' /\ FileTidy'
  BY DEF HeaderRight, FileTidy
<1>2. Orderly
  BY <1>1 DEF Orderly
<1>3. p \in Running /\ ppc[p] # "write"
  BY DEF Running, CheckHeader, OpenFile, Goto
<1>4. \A q \in Commands : q # p => ppc[q] \notin Writing
  BY <1>2, <1>3 DEF TidyInv, OneAtATime, Orderly, Running, Writing
<1>5. file = NoFile \/ WellFormed
  BY <1>2, <1>3, <1>4 DEF TidyInv, FileTidy, Writing
<1>6. CASE CheckHeader(p)
  <2>1. HeaderRight'
    BY <1>4, <1>6 DEF FileInv, TypeInv, HeaderRight, CheckHeader, Goto, Writing
  <2>2. FileTidy'
    BY <1>5, <1>6 DEF FileTidy, WellFormed, CheckHeader
  <2>3. QED
    BY <2>1, <2>2
<1>7. CASE OpenFile(p)
  <2>1. ppc[p] = "open" /\ ppc' = [ppc EXCEPT ![p] = "write"] /\ header' = header
    BY <1>7 DEF OpenFile, Goto
  <2>2. header[p] <=> file = NoFile
    BY <1>2, <2>1 DEF TidyInv, HeaderRight
  <2>3. CASE file = NoFile
    <3>1. file' = <<>>
      BY <1>7, <2>3 DEF OpenFile
    <3>2. Len(file') = 0
      BY <3>1
    <3>3. HeaderRight'
      BY <1>4, <2>1, <2>2, <2>3, <3>2 DEF FileInv, TypeInv, HeaderRight, Writing
    <3>4. FileTidy'
      BY <2>1, <3>2 DEF FileInv, TypeInv, FileTidy
    <3>5. QED
      BY <3>3, <3>4
  <2>4. CASE file # NoFile
    <3>1. file' = file
      BY <1>7, <2>4 DEF OpenFile
    <3>2. file \in Seq(Line) /\ Len(file) # 0
      BY <1>5, <2>4 DEF FileInv, TypeInv, WellFormed
    <3>3. HeaderRight'
      BY <1>4, <2>1, <2>2, <2>4, <3>1, <3>2 DEF FileInv, TypeInv, HeaderRight, Writing
    <3>4. FileTidy'
      BY <1>1, <1>5, <2>4, <3>1 DEF FileTidy, WellFormed
    <3>5. QED
      BY <3>3, <3>4
  <2>5. QED
    BY <2>3, <2>4
<1>8. QED
  BY <1>6, <1>7

(* The header goes to the head of an empty file, and nowhere else. *)
LEMMA TidyWrite ==
  ASSUME FileInv, TidyInv, NEW p \in Commands, WriteRows(p)
  PROVE  HeaderRight' /\ FileTidy'
<1>1. /\ UNCHANGED <<accounts, crashes, overlapped, header>>
      /\ ppc[p] = "write" /\ ppc' = [ppc EXCEPT ![p] = "done"]
  BY DEF WriteRows, Goto, env
<1> SUFFICES ASSUME Orderly'
             PROVE  HeaderRight' /\ FileTidy'
  BY DEF HeaderRight, FileTidy
<1>2. Orderly
  BY <1>1 DEF Orderly
<1>3. \A q \in Commands : q # p => ppc[q] \notin Writing
  BY <1>1, <1>2 DEF TidyInv, OneAtATime, Orderly, Running, Writing
<1>4. file \in Seq(Line) /\ file # NoFile /\ header[p] \in BOOLEAN
  BY <1>1 DEF FileInv, TypeInv, Opened
<1>5. header[p] <=> Len(file) = 0
  BY <1>1, <1>2 DEF TidyInv, HeaderRight
<1>6. HeaderRight'
  BY <1>1, <1>3 DEF FileInv, TypeInv, HeaderRight, Writing
<1>7. /\ Rows(p) \in Seq(Line) /\ Len(Rows(p)) = Count
      /\ \A i \in 1..Count : Rows(p)[i] = <<p, i>>
  BY RowsType
<1>8. \A i \in 1..Count : Rows(p)[i] \in accounts /\ Rows(p)[i] # Header
  <2>1. ASSUME NEW i \in 1..Count
        PROVE  <<p, i>> \in accounts /\ <<p, i>> # Header
    BY <1>1, FileAssumption DEF FileInv, TypeInv, Committed, Writing, Account
  <2>2. QED
    BY <1>7, <2>1
<1>9. file' \in Seq(Line) /\ file' # NoFile
  BY <1>4, WrittenKeys
<1>10. WellFormed'
  <2>1. CASE header[p]
    <3>1. file' = file \o <<Header>> \o Rows(p)
      BY <2>1 DEF WriteRows
    <3>2. Len(file) = 0
      BY <1>5, <2>1
    <3>3. <<Header>> \in Seq(Line)
      BY DEF Line
    <3>4. file \o <<Header>> \in Seq(Line) /\ Len(file \o <<Header>>) = 1
          /\ (file \o <<Header>>)[1] = Header
      BY <1>4, <3>2, <3>3
    <3>5. /\ Len(file') = 1 + Count
          /\ file'[1] = Header
          /\ \A i \in 2..(1 + Count) : file'[i] = Rows(p)[i - 1]
      BY <1>7, <3>1, <3>4, CountAssumption
    <3>6. \A i \in 2..(1 + Count) : file'[i] \in accounts /\ file'[i] # Header
      BY <1>8, <3>5, CountAssumption
    <3>7. QED
      BY <1>1, <1>9, <3>5, <3>6, CountAssumption DEF WellFormed
  <2>2. CASE ~header[p]
    <3>1. file' = file \o <<>> \o Rows(p)
      BY <2>2 DEF WriteRows
    <3>2. file \o <<>> = file
      BY <1>4
    <3>3. WellFormed
      BY <1>2, <1>4, <1>5, <2>2 DEF TidyInv, FileTidy
    <3>4. /\ Len(file') = Len(file) + Count
          /\ \A i \in 1..Len(file) : file'[i] = file[i]
          /\ \A i \in (Len(file) + 1)..(Len(file) + Count) : file'[i] = Rows(p)[i - Len(file)]
      BY <1>4, <1>7, <3>1, <3>2, CountAssumption
    <3>5. Len(file) \in Nat /\ Len(file) > 1
      BY <1>4, <3>3 DEF WellFormed
    <3>6. Len(file') > 1 /\ file'[1] = Header /\ file'[2] \in accounts
      BY <3>3, <3>4, <3>5, CountAssumption DEF WellFormed
    <3>7. ASSUME NEW i \in 2..Len(file')
          PROVE  file'[i] # Header
      <4>1. CASE i <= Len(file)
        BY <3>3, <3>4, <3>5, <3>7, <4>1, CountAssumption DEF WellFormed
      <4>2. CASE i > Len(file)
        BY <1>8, <3>4, <3>5, <3>7, <4>2, CountAssumption
      <4>3. QED
        BY <3>5, <4>1, <4>2
    <3>8. QED
      BY <1>1, <1>9, <3>6, <3>7 DEF WellFormed
  <2>3. QED
    BY <1>4, <2>1, <2>2
<1>11. QED
  BY <1>6, <1>10 DEF FileTidy

(* Whatever ends early is not orderly; `make nuke` leaves no file. *)
LEMMA TidyOther ==
  ASSUME FileInv, TidyInv,
         \/ \E p \in Commands : Crash(p)
         \/ NukeFile \/ NukeVolumes \/ NukeAborted
         \/ UNCHANGED vars
  PROVE  HeaderRight' /\ FileTidy'
<1>1. ASSUME crashes' = crashes + 1
      PROVE  HeaderRight' /\ FileTidy'
  BY <1>1 DEF FileInv, TypeInv, HeaderRight, FileTidy, Orderly
<1>2. ASSUME file' = NoFile, Running' = {}
      PROVE  HeaderRight' /\ FileTidy'
  BY <1>2 DEF HeaderRight, FileTidy, Running
<1>3. CASE UNCHANGED vars
  BY <1>3 DEF vars, TidyInv, HeaderRight, FileTidy, WellFormed, Orderly
<1>4. CASE NukeFile \/ NukeVolumes
  BY <1>2, <1>4 DEF NukeFile, NukeVolumes, FileInv, NukeAlone, Running
<1>5. QED
  BY <1>1, <1>3, <1>4 DEF Crash, NukeAborted

(* Both invariants are kept by every step. *)
LEMMA TidyAlways == Spec => [](FileInv /\ TidyInv)
<1>1. FileInv /\ TidyInv /\ [Next]_vars => TidyInv'
  <2> SUFFICES ASSUME FileInv, TidyInv, [Next]_vars
               PROVE  TidyInv'
    OBVIOUS
  <2>1. OneAtATime'
    BY AloneStep DEF TidyInv
  <2>2. HeaderRight' /\ FileTidy'
    BY TidyEarly, TidyOpen, TidyWrite, TidyOther DEF Next, Command
  <2>3. QED
    BY <2>1, <2>2 DEF TidyInv
<1>2. QED
  BY FileAlways, TidyInit, <1>1, PTL DEF Spec

(* After commands that followed each other the smoke client finds a key    *)
(* that authenticates as soon as there is an account: no command leaves an *)
(* account behind without a file that starts with the header and a row.    *)
THEOREM ClientAlwaysLoads == Spec => []ClientCanLoad
<1>1. FileInv /\ TidyInv => ClientCanLoad
  <2> SUFFICES ASSUME FileInv, TidyInv, AtRest, Orderly, accounts # {}
               PROVE  \E key \in accounts : LoadsApiKey(key)
    BY DEF ClientCanLoad
  <2>1. file # NoFile
    BY DEF FileInv, TypeInv, KeysKept, AtRest, Orderly, Running, Writing, Account, Keys, Lines
  <2>2. WellFormed
    BY <2>1 DEF TidyInv, FileTidy, AtRest, Running
  <2>3. QED
    BY <2>2 DEF WellFormed, LoadsApiKey
<1>2. QED
  BY TidyAlways, <1>1, PTL

(* After commands that followed each other the header is in the file       *)
(* exactly once, however many of them have appended to it.                 *)
THEOREM HeaderAlwaysOnce == Spec => []HeaderOnce
<1>1. FileInv /\ TidyInv => HeaderOnce
  <2> SUFFICES ASSUME FileInv, TidyInv, AtRest, Orderly, file # NoFile
               PROVE  Cardinality({i \in 1..Len(file) : file[i] = Header}) = 1
    BY DEF HeaderOnce
  <2>1. WellFormed /\ Len(file) \in Nat
    BY DEF FileInv, TypeInv, TidyInv, FileTidy, AtRest, Running
  <2>2. {i \in 1..Len(file) : file[i] = Header} = {1}
    BY <2>1 DEF WellFormed
  <2>3. QED
    BY <2>2, FS_Singleton
<1>2. QED
  BY TidyAlways, <1>1, PTL
=============================================================================
