------------------------------ MODULE AuditChain ------------------------------
(* The append-only, hash-chained audit log (core/audit.py).

   A digest is ideal: it is the sequence of the payloads it stands on, so two
   chains have the same hash exactly when they hold the same payloads.  Writers
   are the processes of one machine that append to the same file: the trading
   day, a gate evaluation, the feature catalog.  An append reads the last hash
   and then writes its line; a process may die in the write and leave half a
   line, the machine may stop and lose the last line, and a person may change
   the body of a record or delete a line.

   MaxLen bounds the file, MaxEdits the edits and MaxFaults the crashes. *)
EXTENDS Integers, Sequences

CONSTANTS Writers, Payloads, Forged, Torn, MaxLen, MaxEdits, MaxFaults

ASSUME BoundsAssumption == MaxLen \in Nat /\ MaxEdits \in Nat /\ MaxFaults \in Nat

ASSUME ForgedAssumption == Forged \cap Payloads = {}

\* A line is a record or, after a crash in the write, Torn.
Body == Payloads \cup Forged
Line == [body : Body, prev : Seq(Body), hash : Seq(Body)]

ASSUME TornAssumption == Torn \notin Line

VARIABLES log,       \* the lines of the file
          pending,   \* the record each writer has computed and not written yet
          written,   \* the payloads of every file an append has left
          touched,   \* the first line an edit has reached, or Untouched
          edits, faults

vars == <<log, pending, written, touched, edits, faults>>

GENESIS == <<>>
Digest(prev, payload) == Append(prev, payload)

Untouched == MaxLen + 1
Nothing == <<>>

Record(prev, payload) == [body |-> payload, prev |-> prev, hash |-> Digest(prev, payload)]

\* json.loads of half a line raises, in read() and in whoever reads.
Readable(file) == \A k \in 1 .. Len(file) : file[k] # Torn

LastHash(file) == IF file = <<>> THEN GENESIS ELSE file[Len(file)].hash

Before(file, k) == IF k = 1 THEN GENESIS ELSE file[k - 1].hash

\* Mutant: a record is only held against its own previous hash.
ChainedToItself(file, k) == file[k].hash = Digest(file[k].prev, file[k].body)

\* Mutant: the hash of the body is not computed again.
ChainedByName(file, k) == file[k].prev = Before(file, k)

Chained(file, k) == /\ file[k].prev = Before(file, k)
                    /\ file[k].hash = Digest(Before(file, k), file[k].body)

Verifies(file) == Readable(file) /\ \A k \in 1 .. Len(file) : Chained(file, k)

\* The record verify() names.
FirstBroken(file) == CHOOSE k \in 1 .. Len(file) :
                       /\ ~Chained(file, k)
                       /\ \A j \in 1 .. k - 1 : Chained(file, j)

Bodies(file) == [k \in 1 .. Len(file) |-> file[k].body]

\* A line after half a line continues it: the two together are no record.
Extend(file, line) ==
    IF file # <<>> /\ file[Len(file)] = Torn THEN file ELSE Append(file, line)

Without(file, k) ==
    [j \in 1 .. Len(file) - 1 |-> IF j < k THEN file[j] ELSE file[j + 1]]

------------------------------------------------------------------------------
Init == /\ log = <<>>
        /\ pending = [w \in Writers |-> Nothing]
        /\ written = {<<>>}
        /\ touched = Untouched
        /\ edits = 0
        /\ faults = 0

\* Mutant: every record hangs on the genesis.
ReadLastOfNothing(w, payload) ==
    /\ pending[w] = Nothing
    /\ Readable(log)
    /\ Len(log) < MaxLen
    /\ pending' = [pending EXCEPT ![w] = <<Record(GENESIS, payload)>>]
    /\ UNCHANGED <<log, written, touched, edits, faults>>

\* append: the last hash is read and the record computed; an unreadable file
\* raises and nothing is written.
ReadLast(w, payload) ==
    /\ pending[w] = Nothing
    /\ Readable(log)
    /\ Len(log) < MaxLen
    /\ pending' = [pending EXCEPT ![w] = <<Record(LastHash(log), payload)>>]
    /\ UNCHANGED <<log, written, touched, edits, faults>>

\* append: the line is added to whatever the file is by now.
Write(w) ==
    /\ pending[w] # Nothing
    /\ Len(log) < MaxLen
    /\ log' = Extend(log, pending[w][1])
    /\ pending' = [pending EXCEPT ![w] = Nothing]
    /\ written' = written \cup (IF Readable(log') THEN {Bodies(log')} ELSE {})
    /\ UNCHANGED <<touched, edits, faults>>

\* The process dies in the write, with half the line in the file.
DieWriting(w) ==
    /\ pending[w] # Nothing
    /\ faults < MaxFaults
    /\ Len(log) < MaxLen
    /\ faults' = faults + 1
    /\ log' = Extend(log, Torn)
    /\ pending' = [pending EXCEPT ![w] = Nothing]
    /\ UNCHANGED <<written, touched, edits>>

\* What a lost line leaves of the edits: those at or after it went with it.
TouchedWithout(n) == IF touched >= n THEN Untouched ELSE touched

\* The machine stops before the last line reaches the disk.
LoseLine ==
    /\ faults < MaxFaults
    /\ log # <<>>
    /\ faults' = faults + 1
    /\ log' = Without(log, Len(log))
    /\ pending' = [w \in Writers |-> Nothing]
    /\ touched' = TouchedWithout(Len(log))
    /\ UNCHANGED <<written, edits>>

Earlier(k) == IF k < touched THEN k ELSE touched

\* Somebody changes what a record says, and leaves its hashes alone.
ChangeRecord(k, payload) ==
    /\ edits < MaxEdits
    /\ log[k] # Torn
    /\ log[k].body \notin Forged
    /\ edits' = edits + 1
    /\ log' = [log EXCEPT ![k].body = payload]
    /\ touched' = Earlier(k)
    /\ UNCHANGED <<pending, written, faults>>

\* Somebody deletes a line; the last one leaves no trace.
DeleteLine(k) ==
    /\ edits < MaxEdits
    /\ edits' = edits + 1
    /\ log' = Without(log, k)
    /\ touched' = IF k = Len(log) \/ (k = Len(log) - 1 /\ ~Readable(log))
                  THEN TouchedWithout(k) ELSE Earlier(k)
    /\ UNCHANGED <<pending, written, faults>>

Next == \/ \E w \in Writers, p \in Payloads : ReadLast(w, p)
        \/ \E w \in Writers : Write(w) \/ DieWriting(w)
        \/ LoseLine
        \/ \E k \in 1 .. Len(log) : DeleteLine(k)
        \/ \E k \in 1 .. Len(log), p \in Forged : ChangeRecord(k, p)

Spec == Init /\ [][Next]_vars

------------------------------------------------------------------------------
(* Properties *)

\* A log nobody edited verifies (tests/test_audit.py): whatever crashes, and with
\* whatever order of appends, verify() accepts what append() has written.
VerifiesUnlessTouched ==
    edits = 0 /\ Readable(log) => Verifies(log)

\* A log that verifies is one that append() once left, in its order and with
\* nothing changed or missing in the middle, however often it was edited.
VerifiedOnlyIfOnceWritten == Verifies(log) => Bodies(log) \in written

\* Rewriting history breaks verification at the first tampered record: verify()
\* names the first line an edit has reached or one before it, and no later append,
\* crash or edit hides it.
BreaksByFirstTamperedRecord ==
    Readable(log) /\ touched <= Len(log) =>
      ~Verifies(log) /\ FirstBroken(log) <= touched

==============================================================================
