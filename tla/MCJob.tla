-------------------------------- MODULE MCJob -------------------------------
(* Jobs on all pairs of small files, for TLC. *)
EXTENDS MapReduceImpl

CONSTANT MaxSize  \* bound: the size of a file

Contents == UNION {[size : {n}, newlines : SUBSET (0 .. n - 1)] : n \in 0 .. MaxSize}
AllDisks == [{"f", "g"} -> Contents]

Config(n_workers, ports, files, dir, kilobytes, user) ==
    <<<<"n_workers", n_workers>>, <<"worker_ipaddr_ports", ports>>,
      <<"input_files", files>>, <<"output_dir", dir>>, <<"n_output_files", <<2>>>>,
      <<"comment", <<>>>>, <<"map_kilobytes", kilobytes>>, <<"user_id", user>>>>

\* Two files, one file twice, a size beyond an int, a user nobody knows, a
\* missing worker, no directory, and a number that is none.
AllConfigs ==
    {Config(<<1>>, <<"w1">>, <<"f", "g">>, <<"out">>, <<1>>, <<"cs6210">>),
     Config(<<2>>, <<"w1", "w2">>, <<"f", "f">>, <<"out">>, <<2>>, <<"cs6210">>),
     Config(<<1>>, <<"w1">>, <<"f">>, <<"out">>, <<33>>, <<"cs6210">>),
     Config(<<1>>, <<"w1">>, <<"f">>, <<"out">>, <<1>>, <<"nobody">>),
     Config(<<2>>, <<"w1">>, <<"f">>, <<"out">>, <<1>>, <<"cs6210">>),
     Config(<<1>>, <<"w1">>, <<"f">>, <<>>, <<1>>, <<"cs6210">>),
     Config(<<1>>, <<"w1">>, <<"f">>, <<"out">>, <<>>, <<"cs6210">>)}

\* Lines of f hold two words, lines of g one, which may be "b,c".
PairsOf(f, from) ==
    IF f = "f" THEN <<<<<<"a">>, "1">>, <<<<"b">>, "1">>>>
    ELSE IF from = 0 THEN <<<<<<"b", "c">>, "1">>>>
    ELSE <<<<<<"a">>, "2">>>>

HashOf(k) == IF k = <<"a">> THEN 3 ELSE 4
=============================================================================
