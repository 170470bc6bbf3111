--------------------------- MODULE HashingVerifier ---------------------------
(***************************************************************************)
(* verify_hashing.py of the TF-MFR-EP.6_CommandLineHashing scenario: the  *)
(* verifier the engine runs as an opaque executable.  It reads a metrics  *)
(* file, collects the command-line hashes, looks for three plaintext      *)
(* secrets, and exits 0 iff all three of its percentages say PASS.        *)
(*                                                                         *)
(* The file is abstracted to its lines that carry a process command line: *)
(* a hash label holding the expected SHA-256, another lowercase hash or a *)
(* hash not in lowercase hex (which the pattern does not match), or a     *)
(* plaintext command line holding some of the three secrets.             *)
(***************************************************************************)
EXTENDS Naturals, Sequences, FiniteSets

CONSTANT MaxLines   \* bound on the command-line labels of a metrics file

ASSUME MaxLinesAssumption == MaxLines \in Nat

\* The three sensitive_patterns of lines 22-26.
Sensitive == {"username", "password", "api_key"}

Line ==
    [kind : {"hash"}, hex : {"expected", "other", "upper"}]
    \cup [kind : {"plain"}, text : SUBSET Sensitive]

MetricsFiles == UNION {[1..n -> Line] : n \in 0..MaxLines}

VARIABLES
    argc,      \* len(sys.argv)
    exists,    \* whether the metrics file can be opened
    metrics,   \* the file's command-line labels, in order
    pc,        \* "main", "check" or "exited"
    exitCode   \* the process's exit status

vars == <<argc, exists, metrics, pc, exitCode>>

\* Lines 18-19: re.findall of 'process[._]command_line_hash="([a-f0-9]{64})"'.
HashedCommands(m) ==
    LET hs == SelectSeq(m, LAMBDA l : l.kind = "hash" /\ l.hex # "upper")
    IN  [k \in 1..Len(hs) |-> hs[k].hex]

\* Lines 28-31: the patterns re.search finds anywhere in the file.
LeakedSensitiveInfo(m) ==
    {p \in Sensitive :
        \E k \in 1..Len(m) : m[k].kind = "plain" /\ p \in m[k].text}

\* Line 38: sum(hash_matches).
HashMatches(m) ==
    Len(SelectSeq(HashedCommands(m), LAMBDA h : h = "expected"))

\* A faulty variant: the consistency taken from any matching hash.
HashConsistencyAny(m) ==
    IF HashMatches(m) > 0 THEN 100 ELSE 0

(***************************************************************************)
(* Line 44: sum(hash_matches) / len(hashed_commands) * 100, a float; it   *)
(* is only compared with 100, which it equals exactly when every hash     *)
(* matches (the quotient of two small integers is exact enough).          *)
(***************************************************************************)
HashConsistency(m) ==
    LET n == Len(HashedCommands(m))
    IN  IF n > 0 THEN (HashMatches(m) * 100) \div n ELSE 0

\* Lines 41-68: the three results and the overall verdict.
CheckHashedCommandLines(m) ==
    LET hashing == IF Len(HashedCommands(m)) > 0 THEN 100 ELSE 0
        found   == Cardinality(LeakedSensitiveInfo(m))
    IN  IF hashing = 100 /\ found = 0 /\ HashConsistency(m) = 100 THEN 0 ELSE 1

Init ==
    /\ argc \in 1..3
    /\ exists \in BOOLEAN
    /\ metrics \in MetricsFiles
    /\ pc = "main"
    /\ exitCode = 0

\* Lines 70-73: a wrong number of arguments exits 1.
Main ==
    /\ pc = "main"
    /\ IF argc # 2
          THEN pc' = "exited" /\ exitCode' = 1
          ELSE pc' = "check" /\ UNCHANGED exitCode
    /\ UNCHANGED <<argc, exists, metrics>>

\* Lines 75-77: the check's return value is the exit status; a file that
\* cannot be opened raises out of the script, which exits 1.
Check ==
    /\ pc = "check"
    /\ pc' = "exited"
    /\ exitCode' = IF exists THEN CheckHashedCommandLines(metrics) ELSE 1
    /\ UNCHANGED <<argc, exists, metrics>>

Next == Main \/ Check

Spec == Init /\ [][Next]_vars

-----------------------------------------------------------------------------
\* TypeOK: the verifier's exit status is 0 or 1 and its input never changes.
TypeOK ==
    /\ argc \in 1..3 /\ exists \in BOOLEAN /\ metrics \in MetricsFiles
    /\ pc \in {"main", "check", "exited"} /\ exitCode \in {0, 1}

(***************************************************************************)
(* PassMeansConsistent: the verifier passes only a file in which it found *)
(* a command-line hash, every hash it found is the SHA-256 of the test    *)
(* command, and none of the three secrets appears in plaintext (the three *)
(* percentages of lines 41-45 read together at line 61).                  *)
(***************************************************************************)
PassMeansConsistent ==
    pc = "exited" /\ exitCode = 0 =>
        /\ Len(HashedCommands(metrics)) > 0
        /\ \A k \in 1..Len(HashedCommands(metrics)) :
               HashedCommands(metrics)[k] = "expected"
        /\ LeakedSensitiveInfo(metrics) = {}

=============================================================================
