----------------------------- MODULE FileShard ------------------------------
(***************************************************************************)
(* project4/src/file_shard.h: cutting the input files into shards.  A      *)
(* shard is a sequence of segments [file, from, to) of files.  Every look  *)
(* at a file is an action of its own: files may vanish in between.         *)
(***************************************************************************)
EXTENDS MapReduceSpec

CONSTANTS Kilo,     \* bytes in a kilobyte: 1024 in the code
          IntRange  \* the values of an int: 2^32 in the code

ASSUME FileShardAssumption == Kilo \in Nat \ {0} /\ IntRange \in Nat \ {0}

VARIABLES
    pc,                 \* where MapReduceImpl::run is
    file_shards,        \* MapReduceImpl::file_shards_
    shard,              \* the shard that is being filled
    remain_shard_size,  \* how much it still takes
    file,               \* which of the input files is being cut
    file_offset,        \* where its rest begins
    file_size           \* the size of its rest

cutting == <<shard, remain_shard_size, file, file_offset, file_size>>

Segment(f, from, to) == [file |-> f, from |-> from, to |-> to]

\* An int, which wraps around.
shard_size ==
    ((mr_spec.map_kilobytes * Kilo + (IntRange \div 2)) % IntRange) - (IntRange \div 2)

Cut == mr_spec.input_files[file]
Coming == mr_spec.input_files[file + 1]

get_file_size(f) == IF f \in DOMAIN disk THEN disk[f].size ELSE -1

\* The first newline at p or after it, or the end of the file.
EndOfLine(f, p) ==
    LET later == {n \in disk[f].newlines : n >= p}
    IN  IF later = {} THEN disk[f].size ELSE Min(later)

\* A bug: the cut is not moved to the end of a line.
SplitAnywhere(f, offset, remain) ==
    IF f \in DOMAIN disk /\ offset + remain \in 0 .. disk[f].size - 1 THEN remain ELSE -1

\* A bug: a shard may not end with the last byte of a file either.
SplitShortOfEnd(f, offset, remain) ==
    IF f \in DOMAIN disk /\ offset + remain \in 0 .. disk[f].size - 2
      THEN EndOfLine(f, offset + remain) - offset + 1
      ELSE -1

\* The shard ends with the line at offset + remain.  There must be such a byte;
\* a '\n' is counted even if the file ends without one.
get_split(f, offset, remain) ==
    IF f \in DOMAIN disk /\ offset + remain \in 0 .. disk[f].size - 1
      THEN EndOfLine(f, offset + remain) - offset + 1
      ELSE -1

StartSharding ==
    /\ pc' = "shard"
    /\ shard' = <<>>
    /\ remain_shard_size' = shard_size'
    /\ file' = 0 /\ file_offset' = 0 /\ file_size' = 0

NextFile ==
    /\ pc = "shard"
    /\ file_size <= 0
    /\ file < Len(mr_spec.input_files)
    /\ get_file_size(Coming) # -1
    /\ file' = file + 1
    /\ file_offset' = 0
    /\ file_size' = get_file_size(Coming)
    /\ UNCHANGED <<pc, file_shards, shard, remain_shard_size>>

\* shard_files fails.
FileGone ==
    /\ pc = "shard"
    /\ file_size <= 0
    /\ file < Len(mr_spec.input_files)
    /\ get_file_size(Coming) = -1
    /\ file' = file + 1
    /\ pc' = "no_shards"
    /\ UNCHANGED <<file_shards, shard, remain_shard_size, file_offset, file_size>>

TakeRest ==
    /\ pc = "shard"
    /\ file_size > 0
    /\ remain_shard_size > file_size
    /\ shard' = Append(shard, Segment(Cut, file_offset, file_offset + file_size))
    /\ remain_shard_size' = remain_shard_size - file_size
    /\ file_size' = 0
    /\ UNCHANGED <<pc, file_shards, file, file_offset>>

Split ==
    LET split_size == get_split(Cut, file_offset, remain_shard_size)
    IN  /\ pc = "shard"
        /\ file_size > 0
        /\ remain_shard_size <= file_size
        /\ split_size # -1
        /\ file_shards' = Append(file_shards,
               Append(shard, Segment(Cut, file_offset, file_offset + split_size)))
        /\ shard' = <<>>
        /\ remain_shard_size' = shard_size
        /\ file_offset' = file_offset + split_size
        /\ file_size' = file_size - split_size
        /\ UNCHANGED <<pc, file>>

SplitFails ==
    /\ pc = "shard"
    /\ file_size > 0
    /\ remain_shard_size <= file_size
    /\ get_split(Cut, file_offset, remain_shard_size) = -1
    /\ pc' = "no_shards"
    /\ UNCHANGED <<file_shards, cutting>>

ShardsDone ==
    /\ pc = "shard"
    /\ file_size <= 0
    /\ file = Len(mr_spec.input_files)
    /\ file_shards' = IF shard = <<>> THEN file_shards ELSE Append(file_shards, shard)
    /\ pc' = "map"
    /\ shard' = <<>>
    /\ UNCHANGED <<remain_shard_size, file, file_offset, file_size>>

shard_files == NextFile \/ FileGone \/ TakeRest \/ Split \/ SplitFails \/ ShardsDone

=============================================================================
