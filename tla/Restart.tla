------------------------------ MODULE Restart ------------------------------
(***************************************************************************)
(* How handle_restart (control.c) makes the arguments of the new process   *)
(* from those of the old one, and what parse_options (options.c) will make *)
(* of them.  An argument is an option, with the value it carries in the    *)
(* form --option=value, or an operand, such as the value of the option     *)
(* before it.  Only the centre frequency and the number of channels are    *)
(* told apart; other options are "other".                                  *)
(***************************************************************************)
EXTENDS Integers, Sequences, FiniteSetsExt, TLC

Keep == 0   \* a restart command that does not name the parameter

Settings == {"center_freq", "channels"}

Short(k)  == IF k = "center_freq" THEN "-c" ELSE "-C"
Long(k)   == IF k = "center_freq" THEN "--center-freq" ELSE "--channels"
Joined(k) == IF k = "center_freq" THEN "--center-freq=" ELSE "--channels="

Options == {"-a", "other", "operand"} \cup UNION {{Short(k), Long(k), Joined(k)} : k \in Settings}

Args == [opt : Options, val : Int]

Arg(opt, val) == [opt |-> opt, val |-> val]
Operand(val)  == Arg("operand", val)

-----------------------------------------------------------------------------
(* parse_options *)

\* -a sets both.
AllChannels(k) == IF k = "center_freq" THEN 2441 ELSE 96

Assigning(argv, k) ==
  {i \in DOMAIN argv : argv[i].opt \in {Short(k), Long(k), Joined(k), "-a"}}

\* The last option that sets a parameter wins; 0 stands for the default.
Parsed(argv, k) ==
  IF Assigning(argv, k) = {} THEN 0
  ELSE LET i == Max(Assigning(argv, k)) IN
         CASE argv[i].opt = "-a" -> AllChannels(k)
           [] argv[i].opt = Joined(k) -> argv[i].val
           [] OTHER -> argv[i + 1].val

\* The command lines a program runs with: getopt_long has found the value of
\* each option, in the argument after it or joined to it.
Usable(argv) ==
  /\ argv \in Seq(Args)
  /\ \A i \in DOMAIN argv : \A k \in Settings :
       argv[i].opt \in {Short(k), Long(k)} => i < Len(argv) /\ argv[i + 1].opt = "operand"

-----------------------------------------------------------------------------
(* handle_restart.  new[k] is the value asked for, or Keep. *)

\* strcmp with the short form, strncmp with the long one.
Flags(argv, i, k) == argv[i].opt \in {Short(k), Long(k), Joined(k)}

\* An option that is changed stays where it is; its old value is skipped,
\* unless it is joined to it, and the new one put in its place.
Rewritten(argv, new) ==
  LET At[i \in 1..Len(argv) + 1] ==
        IF i > Len(argv) THEN <<>>
        ELSE LET hit == {k \in Settings : new[k] # Keep /\ Flags(argv, i, k)} IN
             IF hit = {} THEN <<argv[i]>> \o At[i + 1]
             ELSE LET k == CHOOSE k \in hit : TRUE
                      separate == argv[i].opt # Joined(k) /\ i < Len(argv)
                  IN  <<argv[i], Operand(new[k])>> \o At[IF separate THEN i + 2 ELSE i + 1]
  IN At[1]

\* Faulty: one flag says for both parameters that an option was replaced.
AppendedOneFlag(argv, new, k) ==
  IF new[k] = Keep \/ \E i \in DOMAIN argv : \E j \in Settings : Flags(argv, i, j) THEN <<>>
  ELSE <<Arg(Short(k), 0), Operand(new[k])>>

\* A changed parameter that no option set is set at the end.
Appended(argv, new, k) ==
  IF new[k] = Keep \/ \E i \in DOMAIN argv : Flags(argv, i, k) THEN <<>>
  ELSE <<Arg(Short(k), 0), Operand(new[k])>>

NewArgv(argv, new) ==
  Rewritten(argv, new) \o Appended(argv, new, "center_freq") \o Appended(argv, new, "channels")

-----------------------------------------------------------------------------
\* Does the new process take the values asked for, and keep the others?
TakesValues(argv, newArgv, new) ==
  /\ \A k \in Settings : Parsed(newArgv, k) = IF new[k] = Keep THEN Parsed(argv, k) ELSE new[k]
  /\ Cardinality({i \in DOMAIN newArgv : newArgv[i].opt = "other"})
       = Cardinality({i \in DOMAIN argv : argv[i].opt = "other"})

\* The command lines for which it does: no option is joined to its value and
\* -a does not come after an option it overrides.
Separate(argv) ==
  /\ \A i \in DOMAIN argv : \A k \in Settings : argv[i].opt # Joined(k)
  /\ \A i, j \in DOMAIN argv : argv[j].opt = "-a" /\ (\E k \in Settings : Flags(argv, i, k)) => j < i
=============================================================================
