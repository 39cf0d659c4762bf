---------------------------- MODULE KconfigFragment ----------------------------
(***************************************************************************)
(* The configuration fragment of boro build and boro test: src/kconfig.rs. *)
(*                                                                         *)
(* A line is a record of a symbol and its value, "y", "m", "n", "unset"    *)
(* (for "# CONFIG_X is not set"), "other" for a scalar or a string, or     *)
(* "junk" for what is no configuration line.  A directory below            *)
(* tools/testing/selftests is the sequence of its names, and a kselftest   *)
(* area is such a directory.  An option of the command line may have no *)
(* value, "none", and an empty one is "junk".                              *)
(***************************************************************************)
EXTENDS Integers, Sequences, SequencesExt

CONSTANT
  ConfigFiles   \* the config files of the kselftests, [dir, lines], by path

\* line_is_kconfig_entry, and the wider line_is_user_kconfig_entry.
ModelLine(l) == l.value \in {"y", "m", "n", "unset"}
UserLine(l) == ModelLine(l) \/ l.value = "other"

\* parse_config_test_target: an option without a value is switched on, and one
\* with an empty value, or that is no option, is refused.
Refused == [symbol |-> "", value |-> "junk"]

ConfigTarget(arg) ==
  CASE arg.value = "none" -> [arg EXCEPT !.value = "y"]
    [] UserLine(arg) -> arg
    [] OTHER -> Refused

\* Lines seen before are dropped: the first occurrence stays where it is.
Unique(lines) ==
  SelectSeq([i \in DOMAIN lines |-> <<i, lines[i]>>],
            LAMBDA p : \A j \in 1..(p[1] - 1) : lines[j] # p[2])

Deduplicated(lines) == [i \in DOMAIN Unique(lines) |-> Unique(lines)[i][2]]

\* parse_lines
AcceptedLines(lines) == Deduplicated(SelectSeq(lines, ModelLine))

\* fragment_from_lines
UserFragment(lines) == Deduplicated(SelectSeq(lines, UserLine))

\* read_configs_walking_up: the files of these directories and of all above
\* them but the root of the kselftests, in the order of their paths.
KselftestLines(starts) ==
  LET above == UNION {{SubSeq(d, 1, k) : k \in 1..Len(d)} : d \in starts}
      read == SelectSeq(ConfigFiles, LAMBDA f : f.dir \in above)
  IN AcceptedLines(FlattenSeq([i \in DOMAIN read |-> read[i].lines]))

\* generate_fragment: the model's lines, those of the kselftests in the patch,
\* and those of the areas that the model has named.
Fragment(modelLines, changedDirs, areas) ==
  Deduplicated(AcceptedLines(modelLines) \o KselftestLines(changedDirs)
                 \o KselftestLines(areas))
=============================================================================
