------------------------------ MODULE MCStartup ------------------------------
\* Startup for TLC: a behaviour is one of the file or one of the import.
EXTENDS Startup, Naturals, Sequences, TLC

CONSTANTS c1, c2, i1, i2, r1, r2, r3, p1, p2

VARIABLE part   \* what this behaviour is of

fileVars == <<past, main, wal, opening, probe>>
importVars == <<passwords, profiles, revision, complete, vault, rows, call, removed>>

ASSUME FileAssumption == File!RepositoryFileAssumption
ASSUME ImportAssumption == Import!LegacyMigrationAssumption

Symmetric == Permutations(Callers) \cup Permutations(Refs) \cup Permutations(Ids)

MCInit ==
  /\ Import!Init /\ File!Init
  /\ \/ part = "import" /\ past = <<>> /\ probe.at = "never"
     \/ part = "file" /\ passwords = [i \in Ids |-> Empty]

MCNext ==
  /\ UNCHANGED part
  /\ \/ part = "import" /\ Import!Next /\ UNCHANGED fileVars
     \/ part = "file" /\ File!Next /\ UNCHANGED importVars

MCSpec == MCInit /\ [][MCNext]_<<part, fileVars, importVars>>

\* Either several processes open the repository and nobody looks at the files,
\* or one process opens and saves undisturbed and the files change while an App
\* looks at them, by two commits.
Small ==
  IF probe.at = "never" THEN main <= 1
  ELSE /\ \E p \in Openers : opening[p].at = "closed"
       /\ \A p \in Openers : ~opening[p].failed /\ opening[p].at # "stopped"
       /\ IF probe.at = "none" THEN Len(past) - main <= 1 ELSE Len(past) - probe.since <= 2
=============================================================================
