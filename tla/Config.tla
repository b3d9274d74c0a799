--------------------------------- MODULE Config --------------------------------
(***************************************************************************)
(* The configuration of the watch payload (src/core/ua_config.c): the      *)
(* defaults, the template written on the first launch, and the parser that *)
(* sets one key per line and keeps what it has when a line is bad.         *)
(*                                                                         *)
(* A file is a sequence of lines; a line is what trim and strchr('=') make *)
(* of it.  A value is a number, or a negative code for what is not one; a  *)
(* path is a number too, its name.  No number modelled reaches 2^31: Huge  *)
(* stands for those above every upper limit.                               *)
(***************************************************************************)
EXTENDS Integers, Sequences, FiniteSets, SequencesExt, FiniteSetsExt

CONSTANTS
  UA_MAX_WATCHPATHS,
  UA_DEFAULT_WATCHPATH,
  CutNames,              \* the paths whose names are the start of its name
  CutAt                  \* bound: the lines of the template that may be cut

ASSUME ConfigAssumption ==
  /\ UA_MAX_WATCHPATHS \in Nat \ {0, 1}       \* the default takes a slot
  /\ UA_DEFAULT_WATCHPATH \in Nat /\ CutNames \subseteq Nat \ {UA_DEFAULT_WATCHPATH}

(* parse_bool, parse_uint *)
Yes   == -1      \* true, yes, on
No    == -2      \* false, no, off
Junk  == -3      \* neither a word nor a number
Empty == -4      \* nothing, or a path of UA_MAX_PATH or more
Huge  == -5

BoolKey == {"debug", "notify", "overwrite", "delete_after_extract", "allow_symlinks"}

(* The ranges that ua_config_set accepts; only Huge is past the last one.  *)
Limits == [scan_depth              |-> <<1, 2>>,
           poll_interval_seconds   |-> <<1, 3600>>,
           stability_wait_seconds  |-> <<0, 86400>>,
           chunk_size_kb           |-> <<4, 8192>>,
           http_port               |-> <<0, 65535>>,
           max_expansion_ratio     |-> <<0, 1000000>>,
           progress_percent_step   |-> <<0, 100>>,
           decode_threads          |-> <<0, 64>>,
           decode_memory_budget_mb |-> <<64, 65536>>,
           min_free_margin_mb      |-> <<0, 2147483647>>]
NumberKey == DOMAIN Limits

Defaults == [debug |-> 1, notify |-> 1, overwrite |-> 0,
             delete_after_extract |-> 0, allow_symlinks |-> 0,
             scan_depth |-> 1, poll_interval_seconds |-> 10,
             stability_wait_seconds |-> 15, chunk_size_kb |-> 256,
             http_port |-> 9022, max_expansion_ratio |-> 200,
             progress_percent_step |-> 10, decode_threads |-> 0,
             decode_memory_budget_mb |-> 1024, min_free_margin_mb |-> 1024,
             watchpath |-> <<UA_DEFAULT_WATCHPATH>>]

Line(k, v) == [key |-> k, value |-> v]
Comment == Line("#", Empty)      \* also an empty line and a [section]
NoEquals == Line("no_equals", Empty)

-------------------------------------------------------------------------------
(* ua_config_set *)

Accepted(k, v) ==
  IF k \in BoolKey THEN v \in {Yes, No, Huge} \/ v >= 0
  ELSE k \in NumberKey /\ v >= Limits[k][1] /\ v <= Limits[k][2]

Parsed(k, v) == IF k \notin BoolKey THEN v ELSE IF v \in {No, 0} THEN 0 ELSE 1

AcceptedPath(c, p) == p >= 0 /\ Len(c.watchpath) < UA_MAX_WATCHPATHS

IsGood(c, l) == IF l.key = "watchpath" THEN AcceptedPath(c, l.value)
                ELSE Accepted(l.key, l.value)

(* Mutant of ConfigSet: a bad value sets the key to zero. *)
ConfigSetOrZero(c, l) ==
  IF l.key = "watchpath"
  THEN IF AcceptedPath(c, l.value)
       THEN [c EXCEPT !.watchpath = (IF @ = <<UA_DEFAULT_WATCHPATH>> THEN <<>> ELSE @)
                                      \o <<l.value>>]
       ELSE c
  ELSE IF Accepted(l.key, l.value) THEN [c EXCEPT ![l.key] = Parsed(l.key, l.value)]
  ELSE IF l.key \in BoolKey \cup NumberKey THEN [c EXCEPT ![l.key] = 0]
  ELSE c

(* The first configured path displaces the default: told by its name.  *)
ConfigSet(c, l) ==
  IF ~IsGood(c, l) THEN c
  ELSE IF l.key = "watchpath"
  THEN [c EXCEPT !.watchpath = (IF @ = <<UA_DEFAULT_WATCHPATH>> THEN <<>> ELSE @)
                                 \o <<l.value>>]
  ELSE [c EXCEPT ![l.key] = Parsed(l.key, l.value)]

(* ua_config_load of a file that is there, and the lines it complains of.  *)
Load(file) == FoldLeft(ConfigSet, Defaults, file)
Warnings(file) ==
  Cardinality({n \in DOMAIN file :
                 file[n].key # "#" /\ ~IsGood(Load(SubSeq(file, 1, n - 1)), file[n])})

-------------------------------------------------------------------------------
(* ua_config_write_template *)

(* Mutant of Template: a value that is not the default. *)
TemplateOff == <<Line("debug", 1), Line("watchpath", UA_DEFAULT_WATCHPATH),
                 Line("delete_after_extract", 1)>>

Template == <<Line("debug", 1),
              Line("watchpath", UA_DEFAULT_WATCHPATH),
              Line("scan_depth", 1),
              Line("poll_interval_seconds", 10),
              Line("stability_wait_seconds", 15),
              Line("delete_after_extract", 0),
              Line("notify", 1),
              Line("overwrite", 0),
              Line("min_free_margin_mb", 1024),
              Line("chunk_size_kb", 256),
              Line("allow_symlinks", 0),
              Line("max_expansion_ratio", 200),
              Line("progress_percent_step", 10)>>

(* What a line may read as when the file ends within it. *)
CutLines(l) ==
  {NoEquals, Line(l.key, Empty)} \cup
  IF l.key = "watchpath" THEN {Line(l.key, p) : p \in CutNames}
  ELSE {Line(l.key, l.value \div d) : d \in {e \in {10, 100, 1000} : e <= l.value}}

CutTemplates ==
  UNION {{Append(SubSeq(Template, 1, n - 1), l) : l \in CutLines(Template[n])}
            : n \in CutAt \cap DOMAIN Template}

-------------------------------------------------------------------------------
(* The reference for Load: what the documentation says of a file. *)

GoodLines(file, k) == {n \in DOMAIN file : file[n].key = k /\ Accepted(k, file[n].value)}
(* A key has the value of its last good line, or its default.  *)
Says(file, k) == IF GoodLines(file, k) = {} THEN Defaults[k]
                 ELSE Parsed(k, file[Max(GoodLines(file, k))].value)

PathLines(file) == {n \in DOMAIN file : file[n].key = "watchpath" /\ file[n].value >= 0}

(* The paths that are listed, as many as there is room for: the p-th is on *)
(* the line that has p path lines up to it.                                *)
UsablePaths(file) ==
  LET upto(n) == Cardinality({m \in PathLines(file) : m <= n})
      listed  == upto(Len(file))
  IN  [p \in 1..(IF listed < UA_MAX_WATCHPATHS THEN listed ELSE UA_MAX_WATCHPATHS) |->
         file[CHOOSE n \in PathLines(file) : upto(n) = p].value]

(* What is left when the default is listed first and another one after it. *)
DefaultDropped(file) ==
  LET paths == UsablePaths(file)
  IN  Len(paths) > 1 /\ paths[1] = UA_DEFAULT_WATCHPATH
===============================================================================
