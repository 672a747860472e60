------------------------------ MODULE Options ------------------------------
(***************************************************************************)
(* How the command line tools read their options (lib/cli++/main.cc).  The *)
(* words of the command line are written from a list of uses of options,   *)
(* each in one of the forms a user may choose, and then parsed.  A word is *)
(* a sequence of characters.                                               *)
(***************************************************************************)
EXTENDS Integers, FiniteSets, SequencesExt

CONSTANTS
    Opts,      \* cli_options and help, see OptionsAssumption; the help option's type is "help"
    Words,     \* values and operands
    Digits,    \* characters of a number
    MaxUses,   \* bound on the uses
    MinArgs, MaxArgs, \* cli_args_min and cli_args_max
    None

NoLetter == ""
NoName == <<>>

(* The variables that options set, and what these may be. *)
Vars == {o.var : o \in Opts}
Settings == Int \cup {None} \cup Words \cup Seq(Words)

(* An option may lack its letter or its name, but has none of another's.   *)
(* Options that set the same variable, as to yes and to no, are alike.     *)
OptionsAssumption ==
    /\ MaxUses \in Nat /\ MinArgs \in Nat /\ MaxArgs \in Nat
    /\ Opts \subseteq [ch : STRING \ {"-"}, name : Seq(STRING \ {"="}), var : STRING, value : Int,
                      type : {"flag", "counter", "help", "string", "integer", "list"}]
    /\ \A o, p \in Opts : /\ o.ch = p.ch /\ o.ch # NoLetter => o = p
                          /\ o.name = p.name /\ o.name # NoName => o = p
                          /\ o.var = p.var => o.type = p.type
    /\ Words \subseteq Seq(STRING) /\ None \notin [Vars -> Settings]

VARIABLES
    uses, operands, \* history: what the user means
    argv,   \* the words that are left
    at,     \* letters of the first word that have been read
    vals,   \* the program's variables
    status  \* "writing", "parsing", "usage", "help", "main"

vars == <<uses, operands, argv, at, vals, status>>

Switches == {"flag", "counter", "help"}
Forms == {"short", "joined", "long", "equals"}

Type(x) == (CHOOSE o \in Opts : o.var = x).type

Defaults == [x \in Vars |->
    CASE Type(x) \in Switches -> 0
      [] Type(x) = "list" -> <<>>
      [] OTHER -> None]

(* cli_option::set; None is its -1. *)
SetTo(v, o, arg) ==
    CASE o.type \in {"flag", "help"} -> [v EXCEPT ![o.var] = o.value]
      [] o.type = "counter" -> [v EXCEPT ![o.var] = @ + o.value]
      [] o.type = "integer" -> IF ToSet(arg) \subseteq Digits THEN [v EXCEPT ![o.var] = arg] ELSE None
      [] o.type = "list" -> [v EXCEPT ![o.var] = Append(@, arg)]
      [] OTHER -> [v EXCEPT ![o.var] = arg]

-----------------------------------------------------------------------------
(* The user writes: a letter may join the letters of switches before it.   *)
Use(o, form, val) == [opt |-> o, form |-> form, val |-> val]

Spelled(u) ==
    LET dash == IF u.form \in {"short", "joined"} THEN <<"-", u.opt.ch>>
                ELSE <<"-", "-">> \o u.opt.name
    IN IF u.opt.type \in Switches THEN <<dash>>
       ELSE CASE u.form = "joined" -> <<dash \o u.val>>
              [] u.form = "equals" -> <<dash \o <<"=">> \o u.val>>
              [] OTHER -> <<dash, u.val>>

Init ==
    /\ uses = <<>> /\ operands = <<>> /\ argv = <<>> /\ at = 0
    /\ vals = Defaults /\ status = "writing"

WriteUse ==
    /\ status = "writing" /\ Len(uses) < MaxUses
    /\ \E o \in Opts, form \in Forms, val \in Words :
         LET u == Use(o, form, val)
             last == uses[Len(uses)]
             spelled == Spelled(u)
         IN /\ form \in {"short", "joined"} => o.ch # NoLetter
            /\ form \in {"long", "equals"} => o.name # NoName
            /\ o.type \in Switches => form # "equals"
            /\ form = "joined" => val # <<>>
            /\ uses' = Append(uses, u)
            /\ \/ argv' = argv \o spelled
               \/ /\ uses # <<>> /\ last.form \in {"short", "joined"} /\ last.opt.type \in Switches
                  /\ form \in {"short", "joined"}
                  /\ argv' = SubSeq(argv, 1, Len(argv) - 1)
                               \o <<argv[Len(argv)] \o SubSeq(spelled[1], 2, Len(spelled[1]))>>
                               \o Tail(spelled)
    /\ UNCHANGED <<operands, at, vals, status>>

Option(w) == w # <<>> /\ w[1] = "-"

WriteOperands ==
    /\ status = "writing" /\ status' = "parsing"
    /\ \E ws \in UNION {[1..n -> Words] : n \in 0..MaxArgs + 1} :
         /\ operands' = ws
         /\ \/ argv' = argv \o ws /\ (ws # <<>> => ~Option(ws[1]))
            \/ \E stop \in {<<"-">>, <<"-", "-">>} : argv' = argv \o <<stop>> \o ws
    /\ UNCHANGED <<uses, at, vals>>

-----------------------------------------------------------------------------
Usage == status' = "usage" /\ UNCHANGED <<argv, at, vals>>

(* The option takes arg, if it can, and n words have been read. *)
Take(o, arg, n) ==
    IF SetTo(vals, o, arg) = None THEN Usage
    ELSE /\ vals' = SetTo(vals, o, arg)
         /\ argv' = SubSeq(argv, n + 1, Len(argv)) /\ at' = 0
         /\ UNCHANGED status

Parsing == status = "parsing" /\ argv # <<>> /\ Option(argv[1]) /\ Len(argv[1]) > 1

(* A slip: the letter itself is taken as part of the value. *)
RestWithLetter(w, i) == SubSeq(w, i, Len(w))

Rest(w, i) == SubSeq(w, i + 1, Len(w))

(* One letter of a word: a switch, or an option whose value is the rest of *)
(* the word or the next word.                                              *)
ParseShort ==
    /\ Parsing /\ argv[1][2] # "-"
    /\ LET w == argv[1]
           i == (IF at = 0 THEN 1 ELSE at) + 1
           opts == {o \in Opts : o.ch = w[i]}
       IN IF opts = {} THEN Usage
          ELSE LET o == CHOOSE x \in opts : TRUE IN
               IF o.type \in Switches
               THEN IF i = Len(w) THEN Take(o, <<>>, 1)
                    ELSE /\ vals' = SetTo(vals, o, <<>>) /\ at' = i
                         /\ UNCHANGED <<argv, status>>
               ELSE IF i < Len(w) THEN Take(o, Rest(w, i), 1)
               ELSE IF Len(argv) = 1 THEN Usage
               ELSE Take(o, argv[2], 2)
    /\ UNCHANGED <<uses, operands>>

(* --name, --name value or --name=value. *)
ParseLong ==
    /\ Parsing /\ argv[1][2] = "-" /\ Len(argv[1]) > 2
    /\ LET w == SubSeq(argv[1], 3, Len(argv[1]))
           plain == {o \in Opts : w = o.name}
           equal == {o \in Opts : o.name # NoName /\ IsPrefix(o.name \o <<"=">>, w)}
       IN IF plain # {}
          THEN LET o == CHOOSE x \in plain : TRUE IN
               IF o.type \in Switches THEN Take(o, <<>>, 1)
               ELSE IF Len(argv) = 1 THEN Usage
               ELSE Take(o, argv[2], 2)
          ELSE IF equal = {} THEN Usage
          ELSE LET o == CHOOSE x \in equal : TRUE IN
               IF o.type \in Switches THEN Usage
               ELSE Take(o, SubSeq(w, Len(o.name) + 2, Len(w)), 1)
    /\ UNCHANGED <<uses, operands>>

(* Past the first word that is no option, or past "-" or "--"; then help,  *)
(* the number of operands and the program itself.                          *)
Main ==
    /\ status = "parsing" /\ at = 0
    /\ argv # <<>> => ~Option(argv[1]) \/ argv[1] \in {<<"-">>, <<"-", "-">>}
    /\ LET rest == IF argv # <<>> /\ Option(argv[1]) THEN Tail(argv) ELSE argv
       IN /\ argv' = rest
          /\ status' = IF \E o \in Opts : o.type = "help" /\ vals[o.var] # 0 THEN "help"
                       ELSE IF Len(rest) < MinArgs THEN "usage"
                       ELSE IF MaxArgs >= MinArgs /\ Len(rest) > MaxArgs THEN "usage"
                       ELSE "main"
    /\ UNCHANGED <<uses, operands, at, vals>>

Next == WriteUse \/ WriteOperands \/ ParseShort \/ ParseLong \/ Main

Spec == Init /\ [][Next]_vars

-----------------------------------------------------------------------------
(* In whatever form the options are written, apart, joined or with "=",    *)
(* the program starts with what was meant: each variable set by its uses   *)
(* in order, and the operands.  It shows its usage only when a number is   *)
(* none or the operands are too few or too many (parse_short, parse_long,  *)
(* parse_args, main).                                                      *)
OptionsAsMeant ==
    LET meant == FoldLeft(LAMBDA v, u : IF v = None THEN None ELSE SetTo(v, u.opt, u.val),
                          Defaults, uses)
        fits == Len(operands) >= MinArgs /\ (MaxArgs >= MinArgs => Len(operands) <= MaxArgs)
    IN /\ status \in {"main", "help"} => vals = meant /\ argv = operands
       /\ status = "main" => fits
       /\ status = "usage" => meant = None \/ ~fits

=============================================================================
