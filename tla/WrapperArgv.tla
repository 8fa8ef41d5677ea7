---------------------------- MODULE WrapperArgv -----------------------------
(***************************************************************************)
(* From the named inputs, outputs, logs and parameters of a rule to the    *)
(* arguments of its script: snakemake_contracts_wrapper.command.           *)
(*                                                                         *)
(* A namespace is a sequence of items, each a name with a scalar or a      *)
(* sequence of values.  A name is the sequence of its words, which         *)
(* snake_to_kebab joins by hyphens whatever joined them before; a flag is  *)
(* a sequence of words too.                                                *)
(***************************************************************************)
EXTENDS Naturals, SequencesExt

Namespaces == <<"input", "output", "log", "params">>

\* Mutation: every namespace but the inputs gets the prefix.
NamespaceFlag_All(namespace, words) ==
  IF namespace # "input" THEN <<"output">> \o words ELSE words

\* --name or --output-name; an output called output keeps its name.
NamespaceFlag(namespace, words) ==
  IF namespace = "output" /\ words # <<"output">> THEN <<"output">> \o words ELSE words

Values(item) == IF item.scalar THEN <<item.value>> ELSE item.value

\* _extend_namespace: the flag again before each value; exclude_input is about
\* inputs only.
Excluded(namespace, item) == namespace = "input" /\ item.words = <<"script">>
ItemArgs(namespace, item) ==
  IF Excluded(namespace, item) THEN <<>>
  ELSE FlattenSeq([i \in DOMAIN Values(item) |->
         <<[flag |-> NamespaceFlag(namespace, item.words)], [value |-> Values(item)[i]]>>])

NamespaceArgs(namespace, items) ==
  FlattenSeq([i \in DOMAIN items |-> ItemArgs(namespace, items[i])])

\* A command or a script, never both or neither.
Callable(command, script) == (command = <<>>) # (script = <<>>)
BuildArgv(command, script, rule) ==
  command \o script
  \o FlattenSeq([n \in DOMAIN Namespaces |-> NamespaceArgs(Namespaces[n], rule[Namespaces[n]])])

-----------------------------------------------------------------------------
(* Property                                                                *)

\* What build_argv is given: lists of words, and of items with their values.
IsList(s) == Len(s) \in Nat /\ s = [i \in 1..Len(s) |-> s[i]]
WellFormed(command, script, rule) ==
  /\ IsList(command) /\ IsList(script)
  /\ \A n \in ToSet(Namespaces) :
       IsList(rule[n]) /\ \A i \in DOMAIN rule[n] : IsList(Values(rule[n][i]))

\* A parser of options with one value each collects, for a flag, these values
\* in this order and no other.
Collects(args, flag, values) ==
  \E place \in [DOMAIN values -> 1..(Len(args) \div 2)] :
    /\ \A i, j \in DOMAIN values : i < j => place[i] < place[j]
    /\ \A i \in DOMAIN values : args[2 * place[i]] = [value |-> values[i]]
    /\ \A p \in 1..(Len(args) \div 2) :
         args[2 * p - 1] = [flag |-> flag] <=> \E i \in DOMAIN values : place[i] = p

\* An item is known by its namespace and its place there; its documented flag is
\* --name, or --output-name for an output.
Items(rule) == UNION {{n} \X DOMAIN rule[n] : n \in ToSet(Namespaces)}
Item(rule, x) == rule[x[1]][x[2]]
DocumentedFlag(rule, x) ==
  IF x[1] = "output" /\ Item(rule, x).words # <<"output">>
  THEN <<"output">> \o Item(rule, x).words ELSE Item(rule, x).words
Own(rule) == {x \in Items(rule) : DocumentedFlag(rule, x) = <<"script">> => x[1] # "input"}

\* The script can tell every item.  After the command come pairs of a flag and
\* a value, one for each value of an item; an item whose documented flag is that
\* of no other item gets back its values, in order; the script among the inputs
\* is not repeated.
ArgvFaithful(command, script, rule) ==
  LET head == command \o script
      argv == BuildArgv(command, script, rule)
      rest == SubSeq(argv, Len(head) + 1, Len(argv))
      slots == UNION {{x} \X DOMAIN Values(Item(rule, x)) : x \in Own(rule)}
  IN Callable(command, script) =>
       /\ IsPrefix(head, argv)
       /\ \A x \in Own(rule) :
            (\A y \in Own(rule) \ {x} : DocumentedFlag(rule, y) # DocumentedFlag(rule, x)) =>
              Collects(rest, DocumentedFlag(rule, x), Values(Item(rule, x)))
       /\ \A p \in 1..(Len(rest) \div 2) :
            \E x \in Own(rule) : rest[2 * p - 1] = [flag |-> DocumentedFlag(rule, x)]
       /\ Len(rest) = 2 * Cardinality(slots)
=============================================================================
