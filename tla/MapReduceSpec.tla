--------------------------- MODULE MapReduceSpec ----------------------------
(***************************************************************************)
(* project4/src/mapreduce_spec.h: the specification of a job, as read from *)
(* the configuration file, and its validation.                             *)
(*                                                                         *)
(* A line of the configuration file is <<key, value>>; a value is the      *)
(* sequence of what it lists, <<>> for an empty one or for a number that   *)
(* does not parse.  A file of input is its size and the offsets of its     *)
(* newlines; the directories are not modelled but for their names.         *)
(***************************************************************************)
EXTENDS Integers, SequencesExt

CONSTANTS Directories  \* those that exist

VARIABLES disk,    \* disk[f]: the size and the newlines of every file there is
          mr_spec  \* MapReduceImpl::mr_spec_

Numbers == {"n_workers", "n_output_files", "map_kilobytes"}

\* A MapReduceImpl starts out value-initialised.
EmptySpec == [n_workers |-> 0, worker_ipaddr_ports |-> <<>>, input_files |-> <<>>,
              output_dir |-> "", n_output_files |-> 0, map_kilobytes |-> 0, user_id |-> ""]

\* One line: lists grow, everything else is overwritten, unknown keys are skipped.
ReadLine(spec, line) ==
    LET value == line[2]
        number(key, old) == IF line[1] = key THEN value[1] ELSE old
        list(key, old) == IF line[1] = key THEN old \o value ELSE old
        name(key, old) == IF line[1] = key THEN (IF value = <<>> THEN "" ELSE value[1]) ELSE old
    IN  [n_workers |-> number("n_workers", spec.n_workers),
         worker_ipaddr_ports |-> list("worker_ipaddr_ports", spec.worker_ipaddr_ports),
         input_files |-> list("input_files", spec.input_files),
         output_dir |-> name("output_dir", spec.output_dir),
         n_output_files |-> number("n_output_files", spec.n_output_files),
         map_kilobytes |-> number("map_kilobytes", spec.map_kilobytes),
         user_id |-> name("user_id", spec.user_id)]

\* spec after all the lines of the configuration file.
ReadLines(spec, config) ==
    LET read[k \in 0 .. Len(config)] ==
            IF k = 0 THEN spec ELSE ReadLine(read[k - 1], config[k])
    IN  read[Len(config)]

\* std::stoi throws, and nobody catches it.
ReadThrows(config) ==
    \E k \in DOMAIN config : config[k][1] \in Numbers /\ config[k][2] = <<>>

\* A bug (seen from file_shards_, which is kept): the lists start afresh.
ReadAfresh(config) == ReadLines(EmptySpec, config)

\* read_mr_spec_from_config_file
Read(config) == ReadLines(mr_spec, config)

file_exists(f) == f \in DOMAIN disk
is_directory(d) == d \in Directories

validate_mr_spec(spec) ==
    /\ spec.n_workers > 0
    /\ Len(spec.worker_ipaddr_ports) = spec.n_workers
    /\ spec.input_files # <<>>
    /\ \A k \in DOMAIN spec.input_files : file_exists(spec.input_files[k])
    /\ spec.output_dir # "" /\ is_directory(spec.output_dir)
    /\ spec.n_output_files > 0
    /\ spec.map_kilobytes > 0
    /\ spec.user_id # ""

=============================================================================
