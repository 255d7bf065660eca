---------------------------- MODULE MapReduceImpl ---------------------------
(***************************************************************************)
(* project4/src/mapreduce_impl.cc: a job from its configuration file to    *)
(* its output.  run reads and validates the specification, cuts the input  *)
(* files into shards and lets the master run; the master is taken to give  *)
(* every shard and then every partition to some worker once, which is what *)
(* module MapReduce is about.  The user may call run again on the same     *)
(* object, and files may be removed at any time.                           *)
(***************************************************************************)
EXTENDS MrTasks

CONSTANTS Disks,       \* bound: what may be on the disk at first
          Configs,     \* bound: the configuration files
          Registered,  \* the user ids with a mapper and a reducer
          MaxRuns      \* bound: how often run is called

\* A file is a size and newlines within it; the values of numbers are numbers,
\* and all others strings; the keys map emits have a part at least.
ASSUME JobAssumption ==
    /\ \A d \in Disks : \A f \in DOMAIN d :
         /\ d[f].size \in Nat /\ d[f].newlines \in SUBSET (0 .. d[f].size - 1)
         /\ \A p \in 0 .. d[f].size :
              /\ Pairs(f, p) \in Seq((Seq(STRING) \ {<<>>}) \X STRING)
              /\ \A i \in DOMAIN Pairs(f, p) : Hash(Pairs(f, p)[i][1]) \in Int
    /\ \A c \in Configs :
         /\ c \in Seq(Range(c))
         /\ \A k \in DOMAIN c : c[k][2] \in (IF c[k][1] \in Numbers THEN Seq(Int) ELSE Seq(STRING))

VARIABLES config,   \* the configuration file
          runs,     \* calls of run so far
          mapped,   \* mapped[s]: the lines of shard s that were given to map
          inter,    \* inter[p]: the intermediate files of partition p
          output    \* output[p]: what each reduce job wrote for partition p

jobvars == <<mapped, inter, output>>
vars == <<disk, mr_spec, pc, file_shards, cutting, config, runs, jobvars>>

Partitions == 0 .. mr_spec.n_output_files - 1
Nothing == [x \in {} |-> 0]

Init ==
    /\ disk \in Disks
    /\ mr_spec = EmptySpec
    /\ pc = "idle"
    /\ file_shards = <<>>
    /\ shard = <<>> /\ remain_shard_size = 0 /\ file = 0 /\ file_offset = 0 /\ file_size = 0
    /\ config \in Configs
    /\ runs = 0
    /\ mapped = Nothing /\ inter = Nothing /\ output = Nothing

\* External: somebody deletes a file.
Delete(f) ==
    /\ f \in DOMAIN disk
    /\ disk' = [g \in DOMAIN disk \ {f} |-> disk[g]]
    /\ UNCHANGED <<mr_spec, pc, file_shards, cutting, config, runs, jobvars>>

\* run is called, and returns for want of a configuration file.
RunWithoutConfig ==
    /\ pc = "idle"
    /\ runs < MaxRuns
    /\ runs' = runs + 1
    /\ UNCHANGED <<disk, mr_spec, pc, file_shards, cutting, config, jobvars>>

RunThrows ==
    /\ pc = "idle"
    /\ runs < MaxRuns
    /\ ReadThrows(config)
    /\ runs' = runs + 1
    /\ pc' = "terminated"
    /\ UNCHANGED <<disk, mr_spec, file_shards, cutting, config, jobvars>>

\* What was read stays in mr_spec_ even if it is not valid.
RunInvalid ==
    /\ pc = "idle"
    /\ runs < MaxRuns
    /\ ~ReadThrows(config)
    /\ runs' = runs + 1
    /\ mr_spec' = Read(config)
    /\ ~validate_mr_spec(mr_spec')
    /\ UNCHANGED <<disk, pc, file_shards, cutting, config, jobvars>>

Run ==
    /\ pc = "idle"
    /\ runs < MaxRuns
    /\ ~ReadThrows(config)
    /\ runs' = runs + 1
    /\ mr_spec' = Read(config)
    /\ validate_mr_spec(mr_spec')
    /\ StartSharding
    /\ mapped' = Nothing
    /\ inter' = [p \in Partitions' |-> EmptyBag]
    /\ output' = [p \in Partitions' |-> IF p \in DOMAIN output THEN output[p] ELSE <<>>]
    /\ UNCHANGED <<disk, file_shards, config>>

create_shards == shard_files /\ UNCHANGED <<disk, mr_spec, config, runs, jobvars>>

\* create_shards has failed, and run returns.
RunNoShards ==
    /\ pc = "no_shards"
    /\ pc' = "idle"
    /\ UNCHANGED <<disk, mr_spec, file_shards, cutting, config, runs, jobvars>>

get_mapper(user_id) == user_id \in Registered

\* A worker maps a shard.
Map(s) ==
    /\ pc = "map"
    /\ s \in DOMAIN file_shards \ DOMAIN mapped
    /\ get_mapper(mr_spec.user_id)
    /\ LET lines == LinesOfShard(file_shards[s]) IN
         /\ mapped' = [t \in DOMAIN mapped \cup {s} |-> IF t = s THEN lines ELSE mapped[t]]
         /\ inter' = handle_map_job(lines, inter)
    /\ UNCHANGED <<disk, mr_spec, pc, file_shards, cutting, config, runs, output>>

\* Without a mapper for user_id every worker dies of a null pointer, and
\* without a shard no answer ever wakes the master up.
MapStuck ==
    /\ pc = "map"
    /\ ~get_mapper(mr_spec.user_id) \/ file_shards = <<>>
    /\ pc' = "stuck"
    /\ UNCHANGED <<disk, mr_spec, file_shards, cutting, config, runs, jobvars>>

\* The map phase is complete: the reduce jobs append to the output files.
Reduce ==
    /\ pc = "map"
    /\ file_shards # <<>>
    /\ DOMAIN mapped = DOMAIN file_shards
    /\ output' = [p \in Partitions |-> Append(output[p], handle_reduce_job(inter[p]))]
    /\ pc' = "reduce"
    /\ UNCHANGED <<disk, mr_spec, file_shards, cutting, config, runs, mapped, inter>>

\* The master deletes the intermediate files, and run returns.
RunReturns ==
    /\ pc = "reduce"
    /\ pc' = "idle"
    /\ inter' = Nothing
    /\ UNCHANGED <<disk, mr_spec, file_shards, cutting, config, runs, mapped, output>>

Next ==
    \/ RunWithoutConfig \/ RunThrows \/ RunInvalid \/ Run
    \/ create_shards \/ RunNoShards
    \/ (\E s \in DOMAIN file_shards : Map(s)) \/ MapStuck \/ Reduce \/ RunReturns
    \/ \E f \in DOMAIN disk : Delete(f)

Spec == Init /\ [][Next]_vars

-----------------------------------------------------------------------------
(* Properties *)

Size(s) ==
    LET sum[k \in 0 .. Len(s)] == IF k = 0 THEN 0 ELSE sum[k - 1] + s[k].to - s[k].from
    IN  sum[Len(s)]

\* The lines of a file, by definition.
LinesOf(f) ==
    LET starts == Ascending({p \in 0 .. disk[f].size - 1 : p = 0 \/ p - 1 \in disk[f].newlines})
    IN  [k \in DOMAIN starts |-> <<f, starts[k], EndOfLine(f, starts[k])>>]

LongestLine(f) == Max({0} \cup {l[3] - l[2] + 1 : l \in Range(LinesOf(f))})

\* Shards "have complete record entries": every segment begins where the
\* segment before it or no line of its file ended, ends after a newline or at
\* the end of its file, and a shard, but the last, is larger than the size
\* asked for, by less than a line of the file it was cut from.
CutsAtLines ==
    LET segs == FlattenSeq(Append(file_shards, shard))
    IN  /\ \A k \in DOMAIN segs : LET seg == segs[k] IN
             seg.file \in DOMAIN disk =>
                /\ \/ seg.from = 0
                   \/ /\ seg.from - 1 \in disk[seg.file].newlines
                      /\ segs[k - 1].file = seg.file /\ segs[k - 1].to = seg.from
                /\ seg.to - 1 \in disk[seg.file].newlines \/ seg.to >= disk[seg.file].size
        /\ \A k \in DOMAIN file_shards :
             /\ k < Len(file_shards) => Size(file_shards[k]) > shard_size
             /\ Last(file_shards[k]).file \in DOMAIN disk =>
                   Size(file_shards[k]) <= shard_size + LongestLine(Last(file_shards[k]).file)

\* Sharding fails only for a file that is gone, for a shard size beyond an int,
\* and when the rest of a file is exactly what the shard still takes: then
\* get_split looks for the end of a line past the end of the file, and the job
\* is refused although nothing is wrong with it.
FailsAtExactEnd ==
    pc = "no_shards" =>
        Cut \notin DOMAIN disk \/ shard_size < 0 \/ file_size = remain_shard_size

\* What this configuration file says alone, and the lines that map was given.
Asked == ReadLines(EmptySpec, config)
Got == FlattenSeq([s \in DOMAIN file_shards |-> mapped[s]])
AllThere == \A f \in Range(Asked.input_files) : f \in DOMAIN disk

\* Every line of the input files is given to map once, in one piece, whatever
\* the files look like and although the object keeps what an earlier run has
\* read and cut; only a last line without a newline may get a '\0' at its end.
\* The exception is a configuration file with too few addresses: refused at
\* first, it passes when run is called again, for its lists count twice by then,
\* and so do its input files.
EveryLineOnce ==
    pc = "reduce" /\ AllThere =>
        /\ \/ mr_spec.input_files = Asked.input_files
           \/ Len(Asked.worker_ipaddr_ports) < Asked.n_workers
        /\ [k \in DOMAIN Got |-> <<Got[k].file, Got[k].from, Got[k].to>>]
             = FlattenSeq([k \in DOMAIN mr_spec.input_files |-> LinesOf(mr_spec.input_files[k])])
        /\ \A l \in Range(Got) :
             l.padded => l.to = disk[l.file].size /\ l.to - 1 \notin disk[l.file].newlines

Emitted == EmittedFor(Got)
Written(p) == Last(output[p])

\* reduce is called once for every key, with all that map emitted for it
\* anywhere, except for a key that the keys with commas are mistaken for; and
\* for no other key.
ReduceExact ==
    pc = "reduce" /\ AllThere =>
        LET keys == {kv[1] : kv \in Range(Emitted)}
            plain == {k \in keys : \A l \in keys : Head(l) = Head(k) => l = k /\ Len(k) = 1}
            values(k) == [v \in {<<kv[2]>> : kv \in {e \in Range(Emitted) : e[1] = k}} |->
                            Cardinality({i \in DOMAIN Emitted : Emitted[i] = <<k, v[1]>>})]
        IN  /\ \A k \in plain : \E p \in Partitions :
                 /\ k \in DOMAIN Written(p) /\ Written(p)[k] = values(k)
                 /\ \A q \in Partitions \ {p} : k \notin DOMAIN Written(q)
            /\ \A p \in Partitions : DOMAIN Written(p) \subseteq {<<Head(k)>> : k \in keys}

=============================================================================
