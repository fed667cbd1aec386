----------------------------- MODULE ToolTraits -----------------------------
(***************************************************************************)
(* The eleven Go parsers that share one program structure, told apart by   *)
(* what their main() does differently:                                     *)
(*                                                                         *)
(*  select   how -d picks its inputs: by "name" while it walks the tree    *)
(*           (gole and goevtx: or by header), or by "header" when a file's *)
(*           turn comes, dropping silently what cannot be opened or begins *)
(*           with other bytes                                              *)
(*  rows     records in a file: "one", or "many" (zero included)           *)
(*  write    what a failed write does: "fatal" ends the run with code 1,   *)
(*           "counted" makes the input a failed one and goes on            *)
(*  csv      is there a --csv mode?                                        *)
(*  damaged  what becomes of a damaged input: it "fails", fails "midway"   *)
(*           after some of its records were emitted, or is "lenient"ly     *)
(*           read as an input without records                              *)
(*  noKey    a hive or database without the key or table the tool is for:  *)
(*           an input without "records", one to "skip", one to "skipInDir" *)
(*           that fails under -f; "none" if the format has no such thing   *)
(*  noneFound  does -d exit 1 when it selected nothing?                    *)
(*  noRecords  does the run exit 1 when it emitted nothing?                *)
(***************************************************************************)
gorb == [name |-> "gorb", select |-> "header", rows |-> "one",
  write |-> "fatal", csv |-> TRUE, damaged |-> "fails", noKey |-> "none",
  noneFound |-> TRUE, noRecords |-> FALSE]

gomft == [name |-> "gomft", select |-> "header", rows |-> "many",
  write |-> "counted", csv |-> TRUE, damaged |-> "lenient", noKey |-> "none",
  noneFound |-> TRUE, noRecords |-> FALSE]

gole == [name |-> "gole", select |-> "name", rows |-> "one",
  write |-> "fatal", csv |-> TRUE, damaged |-> "fails", noKey |-> "none",
  noneFound |-> FALSE, noRecords |-> FALSE]

gojle == [name |-> "gojle", select |-> "name", rows |-> "one",
  write |-> "fatal", csv |-> FALSE, damaged |-> "fails", noKey |-> "none",
  noneFound |-> FALSE, noRecords |-> FALSE]

goprefetch == [name |-> "goprefetch", select |-> "name", rows |-> "one",
  write |-> "fatal", csv |-> TRUE, damaged |-> "fails", noKey |-> "none",
  noneFound |-> FALSE, noRecords |-> FALSE]

goevtx == [name |-> "goevtx", select |-> "name", rows |-> "many",
  write |-> "counted", csv |-> FALSE, damaged |-> "fails", noKey |-> "none",
  noneFound |-> FALSE, noRecords |-> FALSE]

gore == [name |-> "gore", select |-> "header", rows |-> "many",
  write |-> "counted", csv |-> TRUE, damaged |-> "fails", noKey |-> "records",
  noneFound |-> TRUE, noRecords |-> FALSE]

gosbe == [name |-> "gosbe", select |-> "header", rows |-> "many",
  write |-> "counted", csv |-> FALSE, damaged |-> "fails", noKey |-> "records",
  noneFound |-> TRUE, noRecords |-> FALSE]

goamcache == [name |-> "goamcache", select |-> "header", rows |-> "many",
  write |-> "counted", csv |-> TRUE, damaged |-> "fails", noKey |-> "skip",
  noneFound |-> TRUE, noRecords |-> TRUE]

goappcompat == [name |-> "goappcompat", select |-> "header", rows |-> "many",
  write |-> "fatal", csv |-> TRUE, damaged |-> "fails", noKey |-> "skipInDir",
  noneFound |-> TRUE, noRecords |-> FALSE]

gowxt == [name |-> "gowxt", select |-> "header", rows |-> "many",
  write |-> "counted", csv |-> TRUE, damaged |-> "midway", noKey |-> "skipInDir",
  noneFound |-> TRUE, noRecords |-> FALSE]

AllTools == {gorb, gomft, gole, gojle, goprefetch, goevtx, gore, gosbe,
             goamcache, goappcompat, gowxt}

Trait ==
  [name : STRING, select : {"name", "header"}, rows : {"one", "many"},
   write : {"fatal", "counted"}, csv : BOOLEAN,
   damaged : {"fails", "midway", "lenient"},
   noKey : {"records", "skip", "skipInDir", "none"},
   noneFound : BOOLEAN, noRecords : BOOLEAN]
=============================================================================
