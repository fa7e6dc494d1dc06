------------------------------ MODULE Helpers -------------------------------
(***************************************************************************)
(* Small functions other parts of the monitor depend on: chunks            *)
(* (utilities.py), the throttling of log messages (context.py), the choice *)
(* among the versions of an extension (extensions_fetcher.py).             *)
(***************************************************************************)
EXTENDS Integers, Sequences, FiniteSets, SequencesExt

\* Mutant: a size of zero stays zero, and the rest of the list is one chunk.
ChunksUnbounded(list, size) ==
    IF size = 0 THEN <<list>>
    ELSE [k \in 1..((Len(list) + size - 1) \div size) |->
             SubSeq(list, (k - 1) * size + 1, k * size)]

\* chunks: slices of at most size elements, at least one.
Chunks(list, size) ==
    LET step == IF size < 1 THEN 1 ELSE size
        end(k) == IF k * step < Len(list) THEN k * step ELSE Len(list)
    IN  [k \in 1..((Len(list) + step - 1) \div step) |->
            SubSeq(list, (k - 1) * step + 1, end(k))]

\* Mutant: the notice is not counted.
ThrottledUncounted(state, limit) ==
    CASE state.count < limit -> [count |-> state.count + 1, printed |-> Append(state.printed, "message")]
      [] OTHER -> [state EXCEPT !.printed = Append(@, "notice")]

\* One call of t_error or t_exception with a message: what is printed of it so
\* far, and how often it was counted (throttled_log_call_count).
Throttled(state, limit) ==
    CASE state.count < limit -> [count |-> state.count + 1, printed |-> Append(state.printed, "message")]
      [] state.count = limit -> [count |-> state.count + 1, printed |-> Append(state.printed, "notice")]
      [] OTHER -> state
PrintedAfter(calls, limit) ==
    FoldLeft(LAMBDA state, call : Throttled(state, limit),
             [count |-> 0, printed |-> <<>>], [i \in 1..calls |-> i]).printed

\* A version is the sequence of its parts; without the dots it is one number.
Digits(part) == IF part < 10 THEN 10 ELSE 100
AsNumber(version) == FoldLeft(LAMBDA n, part : n * Digits(part) + part, 0, version)

\* Mutant: the last one listed is kept.
KeptVersionLast(versions) == versions[Len(versions)]

\* _deduplicate_extensions, for the versions of one extension as listed.
KeptVersion(versions) ==
    FoldLeft(LAMBDA kept, version :
                 IF AsNumber(version) > AsNumber(kept) THEN version ELSE kept,
             versions[1], versions)
=============================================================================
