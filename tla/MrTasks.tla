------------------------------ MODULE MrTasks -------------------------------
(***************************************************************************)
(* What a worker of project4 does with the data of a job (mr_tasks.cc,     *)
(* handle_map_job and handle_reduce_job of worker_request.cc): reading the *)
(* lines of a shard, buffering and partitioning the pairs that the user's  *)
(* map emits for them, and grouping them by key for the user's reduce.     *)
(*                                                                         *)
(* A key is the sequence of its parts between commas and a line of an      *)
(* intermediate file the sequence of its parts; the files of a partition   *)
(* (one per worker) are one bag of lines, as their order does not matter.  *)
(***************************************************************************)
EXTENDS FileShard

CONSTANTS KeyValuePairDumpThreshold,
          Pairs(_, _),  \* what the user's map emits for the line at an offset of a file
          Hash(_)       \* std::hash

\* The numbers in S, in ascending order.
Ascending(S) ==
    [k \in 1 .. Cardinality(S) |-> CHOOSE x \in S : Cardinality({y \in S : y < x}) = k - 1]

\* The lines std::getline gives of a segment, in order.  The buffer is filled
\* up with '\0', which stays when the segment reaches past the end of the file.
LinesIn(seg) ==
    LET newlines == {n \in disk[seg.file].newlines : seg.from <= n /\ n < seg.to - 1}
        starts == Ascending({seg.from} \cup {n + 1 : n \in newlines})
        end(from) == Min({EndOfLine(seg.file, from), seg.to})
        padded(from) == end(from) = disk[seg.file].size /\ seg.to > disk[seg.file].size
    IN  IF seg.file \in DOMAIN disk
          THEN [k \in DOMAIN starts |->
                  [file |-> seg.file, from |-> starts[k], to |-> end(starts[k]),
                   padded |-> padded(starts[k])]]
          ELSE <<[file |-> seg.file, from |-> seg.from, to |-> seg.to, padded |-> TRUE]>>

LinesOfShard(s) == FlattenSeq([k \in DOMAIN s |-> LinesIn(s[k])])

\* External: the user's map, which finds nothing in '\0's.
map(line) == IF line.file \in DOMAIN disk THEN Pairs(line.file, line.from) ELSE <<>>

EmittedFor(lines) == FlattenSeq([k \in DOMAIN lines |-> map(lines[k])])

\* BaseMapperInternal: m is its buffer and the intermediate files.
dump(m) ==
    LET goes(k, p) == Hash(m.key_value_pairs[k][1]) % mr_spec.n_output_files = p
        line(k) == Append(m.key_value_pairs[k][1], m.key_value_pairs[k][2])
        all == DOMAIN m.key_value_pairs
        appended(p) == [l \in {line(k) : k \in {j \in all : goes(j, p)}} |->
                          Cardinality({k \in all : goes(k, p) /\ line(k) = l})]
    IN  [key_value_pairs |-> <<>>,
         files |-> [p \in DOMAIN m.files |-> m.files[p] (+) appended(p)]]

\* A bug: the pair that finds the buffer full is not kept.
EmitDropsWhenFull(m, kv) ==
    IF Len(m.key_value_pairs) >= KeyValuePairDumpThreshold
      THEN dump(m)
      ELSE [m EXCEPT !.key_value_pairs = Append(@, kv)]

emit(m, kv) ==
    LET room == IF Len(m.key_value_pairs) >= KeyValuePairDumpThreshold THEN dump(m) ELSE m
    IN  [room EXCEPT !.key_value_pairs = Append(@, kv)]

\* The intermediate files after a map job on these lines.
handle_map_job(lines, files) ==
    LET pairs == EmittedFor(lines)
        m[k \in 0 .. Len(pairs)] ==
            IF k = 0 THEN [key_value_pairs |-> <<>>, files |-> files]
                     ELSE emit(m[k - 1], pairs[k])
    IN  dump(m[Len(pairs)]).files

\* A line of an intermediate file is taken apart at its first comma.  (What
\* follows loses its first character as well: the blank dump has written, or,
\* for a key with a comma, a character of the key.)
KeyOf(line) == <<Head(line)>>
ValueOf(line) == Tail(line)

\* word2values, for each key of which the user's reduce is called: each value
\* as often as there is a line with it.
handle_reduce_job(content) ==
    [k \in {KeyOf(line) : line \in BagToSet(content)} |->
        [v \in {ValueOf(line) : line \in {l \in BagToSet(content) : KeyOf(l) = k}} |->
            content[k \o v]]]

=============================================================================
