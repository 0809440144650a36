---------------------------- MODULE PersistentLog ----------------------------
(***************************************************************************)
(* The file-backed log of one operator, with a process that stops at any   *)
(* point and writes that fail or are cut short.  A line of the file is the *)
(* sequence of bytes its hex stands for, with Half for a lone digit; tail  *)
(* is what follows the last newline.                                       *)
(***************************************************************************)
EXTENDS Merkle

CONSTANTS
    Entries,        \* what is appended: non-empty sequences of bytes
    MaxEntries,     \* bound on the entries in memory
    MaxRestarts,
    MaxFailures,    \* bound on the writes that fail or are cut short
    Half            \* a hex digit without its second half

VARIABLES
    up,             \* whether the process is running
    entries,        \* its memory
    lines, tail,    \* the file
    restarts, failures,
    heads,          \* history: the logs whose roots the operator gave out
    acked,          \* history: the entries whose append returned
    whole,          \* history: how many of them before the first cut-short write
    torn            \* history: whether a write was ever cut short

logVars == <<up, entries, lines, tail, restarts, failures, heads, acked, whole, torn>>

LogInit ==
    /\ up = FALSE /\ entries = <<>>
    /\ lines = <<>> /\ tail = <<>>
    /\ restarts = 0 /\ failures = 0
    /\ heads = {} /\ acked = <<>> /\ whole = 0 /\ torn = FALSE

\* The constructor: every line that is not empty, or it throws.
Lines == SelectSeq(Append(lines, tail), LAMBDA l : l # <<>>)
Loads == \A i \in 1..Len(Lines) : Half \notin ToSet(Lines[i])

Open ==
    /\ ~up /\ Loads
    /\ restarts < MaxRestarts
    /\ up' = TRUE
    /\ entries' = Lines
    /\ restarts' = restarts + 1
    /\ UNCHANGED <<lines, tail, failures, heads, acked, whole, torn>>

\* The newline comes first.
append_Leading(data) ==
    /\ up /\ Len(entries) < MaxEntries
    /\ entries' = Append(entries, data)
    /\ lines' = Append(lines, tail)
    /\ tail' = data
    /\ heads' = heads \cup {entries'}
    /\ acked' = Append(acked, data)
    /\ whole' = IF torn THEN whole ELSE Len(acked')
    /\ UNCHANGED <<up, restarts, failures, torn>>

\* append: memory, then the line with its newline, then the new root is returned.
append(data) ==
    /\ up /\ Len(entries) < MaxEntries
    /\ entries' = Append(entries, data)
    /\ lines' = Append(lines, tail \o data)
    /\ tail' = <<>>
    /\ heads' = heads \cup {entries'}
    /\ acked' = Append(acked, data)
    /\ whole' = IF torn THEN whole ELSE Len(acked')
    /\ UNCHANGED <<up, restarts, failures, torn>>

\* What a write of data that is cut short may leave: some first digits, no newline.
Cuts(data) ==
    {Take(data, k) : k \in 0..Len(data)}
        \cup {Append(Take(data, k), Half) : k \in 0..Len(data) - 1}

\* append whose write fails: it throws, and the entry stays in memory.
appendThrows(data) ==
    /\ up /\ Len(entries) < MaxEntries /\ failures < MaxFailures
    /\ entries' = Append(entries, data)
    /\ \E cut \in Cuts(data) :
          /\ tail' = tail \o cut
          /\ torn' = (torn \/ cut # <<>>)
    /\ failures' = failures + 1
    /\ UNCHANGED <<up, lines, restarts, heads, acked, whole>>

\* The process stops in the middle of an append.
appendCrashes(data) ==
    /\ up /\ failures < MaxFailures
    /\ \E cut \in Cuts(data) :
          /\ tail' = tail \o cut
          /\ torn' = (torn \/ cut # <<>>)
          /\ failures' = IF cut = <<>> THEN failures ELSE failures + 1
    /\ up' = FALSE /\ entries' = <<>>
    /\ UNCHANGED <<lines, restarts, heads, acked, whole>>

\* root(), size() and signTreeHead: the operator gives out the head it has.
Publish ==
    /\ up
    /\ heads' = heads \cup {entries}
    /\ UNCHANGED <<up, entries, lines, tail, restarts, failures, acked, whole, torn>>

LogNext ==
    \/ Open \/ Publish
    \/ \E data \in Entries : append(data) \/ appendThrows(data) \/ appendCrashes(data)
-----------------------------------------------------------------------------
\* proveConsistency against what a monitor has kept of an earlier head.
Answers(h) ==
    /\ Len(h) <= Len(entries)
    /\ verifyConsistency(Len(h), Len(entries), consistencyProof(entries, Len(h), Len(entries)),
                         merkleRoot(h), merkleRoot(entries))

\* An honest operator is never taken for one that rewrites its log: whatever heads it
\* gave out, in this life of the process or an earlier one, it can link to the log it
\* has now, as long as no append threw and no line was cut short (append pushes before it
\* writes; the constructor reads back what was written).
HeadsStayLinked == up /\ failures = 0 => \A h \in heads : Answers(h)

\* Nothing acknowledged is lost: writes that fail without a trace never disturb what
\* append reported as done, and a reload gives exactly those entries in their order
\* (append, constructor).
AckedSurvives == ~torn => Lines = acked

\* A line cut short spoils nothing before it: the log that a reload gives, if it gives
\* one, starts with every entry acknowledged before the cut.
CutSparesPrefix == Loads => IsPrefix(Take(acked, whole), Lines)

\* The log survives its process: with no failure it stands by every head it gave out, with
\* failures that leave no trace by every entry it acknowledged, and with a line cut short
\* by every entry before it (append, constructor).
LogSurvives == HeadsStayLinked /\ AckedSurvives /\ CutSparesPrefix
=============================================================================
