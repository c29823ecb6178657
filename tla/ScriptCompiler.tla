--------------------------- MODULE ScriptCompiler ---------------------------
(***************************************************************************)
(* Compiler::get_executable_tree and the recursive Compiler::read_line     *)
(* (compiler.cpp), as a machine with an explicit stack of activations.     *)
(*                                                                         *)
(* A line of the script is abstracted to what read_line tells apart:       *)
(*   "blank"    ""                       "comment"  # ...                  *)
(*   "close"    }                        "open"     a known function name  *)
(*   "unknown"  any other line ending in {                                 *)
(*   "getter"   > ...                    "value"    anything else          *)
(* A node is identified by the number of the line it is made from, and the *)
(* tree is the function from attached nodes to their parents; children are *)
(* in the order of their lines.                                            *)
(***************************************************************************)
EXTENDS Naturals, Sequences, FiniteSets

CONSTANTS
  Kinds,       \* kinds of line a script may have
  MaxLines     \* bound: length of a script

ASSUME KindAssumption ==
  /\ Kinds \subseteq {"blank", "comment", "close", "open", "unknown", "getter",
                      "value"}
  /\ MaxLines \in Nat

VARIABLES
  script,    \* the lines of the file
  stack,     \* activations of read_line: [node, aux, next]
  parent,    \* the tree built so far
  rest,      \* the line number that the outermost read_line returned
  status     \* "reading", "checking", "done" or "error"

vars == <<script, stack, parent, rest, status>>

Root == 0
Null == 0         \* aux_function_node = nullptr
Leaves == {"getter", "value"}

\* get_line: numbered from 1, "" past the end
Line(n) == IF n <= Len(script) THEN script[n] ELSE "blank"

Scripts == UNION {[1..n -> Kinds] : n \in 0..MaxLines}

\* current_node, aux_function_node and next_line of a call of read_line
Activation(node, next) == [node |-> node, aux |-> Null, next |-> next]

Init ==
  /\ script \in Scripts
  /\ stack = <<Activation(Root, 1)>>
  /\ parent = <<>>
  /\ rest = 0
  /\ status = "reading"

-----------------------------------------------------------------------------
Top == stack[Len(stack)]
Here == Line(Top.next)
Reading == status = "reading"

\* current_node->add_node(new_node)
Attached(n) == [m \in DOMAIN parent \cup {n} |-> IF m = n THEN Top.node ELSE parent[m]]

\* Variant: the line behind the one returned to is lost.
Back_far == Top.next + 2
Back == Top.next + 1

\* read_line returns, to its caller or to get_executable_tree.
Return ==
  LET callers == SubSeq(stack, 1, Len(stack) - 1)
  IN IF callers = <<>>
     THEN stack' = <<>> /\ rest' = Back /\ status' = "checking"
     ELSE /\ stack' = [callers EXCEPT ![Len(callers)].next = Back]
          /\ UNCHANGED <<rest, status>>

Throw == status' = "error" /\ UNCHANGED <<stack, parent, rest>>

\* "" ends an activation; the caller goes on behind it.
BlankLine ==
  /\ Reading /\ Here = "blank" /\ Top.aux = Null
  /\ Return
  /\ UNCHANGED <<script, parent>>

UnfinishedFunction ==
  /\ Reading /\ Here = "blank" /\ Top.aux # Null
  /\ Throw
  /\ UNCHANGED script

\* Variant: a comment is not stepped over.
Behind_stuck(n) == n
Behind(n) == n + 1

Comment ==
  /\ Reading /\ Here = "comment"
  /\ stack' = [stack EXCEPT ![Len(stack)].next = Behind(@)]
  /\ UNCHANGED <<script, parent, rest, status>>

\* } completes the function of this activation.
Close ==
  /\ Reading /\ Here = "close" /\ Top.aux # Null
  /\ parent' = Attached(Top.aux)
  /\ Return
  /\ UNCHANGED script

StrayClose ==
  /\ Reading /\ Here = "close" /\ Top.aux = Null
  /\ Throw
  /\ UNCHANGED script

\* Variant: the argument is handed to the enclosing function.
Receiver_outer == Top.node
Receiver == Top.aux

\* Inside a function every further line is read by an activation of its own.
Argument ==
  /\ Reading /\ Here \in {"open", "unknown"} \cup Leaves /\ Top.aux # Null
  /\ stack' = Append(stack, Activation(Receiver, Top.next))
  /\ UNCHANGED <<script, parent, rest, status>>

\* A function begins, and its first argument is read at once.
Open ==
  /\ Reading /\ Here = "open" /\ Top.aux = Null
  /\ stack' = Append([stack EXCEPT ![Len(stack)].aux = Top.next],
                     Activation(Top.next, Top.next + 1))
  /\ UNCHANGED <<script, parent, rest, status>>

UnknownFunction ==
  /\ Reading /\ Here = "unknown" /\ Top.aux = Null
  /\ Throw
  /\ UNCHANGED script

Leaf ==
  /\ Reading /\ Here \in Leaves /\ Top.aux = Null
  /\ parent' = Attached(Top.next)
  /\ Return
  /\ UNCHANGED script

\* Variant: what follows the tree is not looked at.
NothingRemains_lax == TRUE
\* Code that remains behind the tree is an error.
NothingRemains == Line(rest) = "blank"

\* get_executable_tree, behind read_line
CheckRest ==
  /\ status = "checking"
  /\ status' = IF NothingRemains THEN "done" ELSE "error"
  /\ UNCHANGED <<script, stack, parent, rest>>

Step ==
  \/ BlankLine \/ UnfinishedFunction \/ Comment \/ Close \/ StrayClose \/ Argument
  \/ Open \/ UnknownFunction \/ Leaf \/ CheckRest

\* The compilation has returned or thrown.
Finished == status \in {"done", "error"} /\ UNCHANGED vars

Next == Step \/ Finished
Spec == Init /\ [][Next]_vars
FairSpec == Spec /\ WF_vars(Step)

-----------------------------------------------------------------------------
(* A reference reading of a script, by counting braces, as the Readme       *)
(* describes it: comments are ignored and the first blank line ends it.     *)

\* The nearest line before n that is no comment, 0 if there is none
Before(n) ==
  LET code == {m \in 1..(n - 1) : script[m] # "comment"}
  IN IF code = {} THEN 0 ELSE CHOOSE m \in code : \A k \in code : k <= m

EndLine ==
  LET ends == {n \in 1..(Len(script) + 1) : Line(n) = "blank"}
  IN CHOOSE n \in ends : \A m \in ends : n <= m

Code == {n \in 1..(EndLine - 1) : script[n] \notin {"comment", "blank"}}
First == CHOOSE n \in Code : \A m \in Code : n <= m
Final == CHOOSE n \in Code : \A m \in Code : m <= n

\* Functions open behind line n
Depth(n) ==
  LET upto(kind) == Cardinality({m \in Code : m <= n /\ script[m] = kind})
  IN upto("open") - upto("close")

\* One expression: a leaf, or a function whose braces match at the last line.
OneExpression ==
  /\ \A n \in Code : script[n] # "unknown"
  /\ IF script[First] = "open"
     THEN \A n \in Code : Depth(n) = 0 <=> n = Final
     ELSE script[First] \in Leaves /\ Code = {First}
  \* a function has an argument
  /\ \A n \in Code : script[n] = "close" => Before(n) # 0 /\ script[Before(n)] # "open"

\* A script without code compiles to an empty tree.
Accepted == Code # {} => OneExpression

Encloses(m, n) ==
  /\ m < n /\ script[m] = "open"
  /\ \A k \in Code : m <= k /\ k < n => Depth(k) >= Depth(m)

ReferenceTree ==
  [n \in {k \in Code : script[k] # "close"} |->
     LET around == {m \in Code : Encloses(m, n)}
     IN IF around = {} THEN Root ELSE CHOOSE m \in around : \A k \in around : k <= m]

-----------------------------------------------------------------------------
(* Properties                                                              *)

\* The type of the state: an activation reads a line not beyond the first one
\* after the script's end, its function is a line already read.
TypeOK ==
  /\ status \in {"reading", "checking", "done", "error"}
  /\ \A i \in 1..Len(stack) :
       /\ stack[i].next \in 1..(Len(script) + 2)
       /\ stack[i].aux \in 0..Len(script) /\ stack[i].node \in 0..Len(script)
  /\ DOMAIN parent \subseteq 1..Len(script)
  /\ rest \in 0..(Len(script) + 2)
  /\ status = "reading" => stack # <<>>

\* A blank line right behind an opening brace stands in the place of the first
\* argument, and the line behind the tree, or behind a blank line in front of all
\* code, has to be blank: there the code departs from the Readme.
Skipped(n) == Before(n) # 0 /\ script[Before(n)] = "open"
Undisputed ==
  /\ EndLine <= Len(script) => ~ Skipped(EndLine)
  /\ Line(IF Code = {} THEN EndLine + 1 ELSE Final + 1) = "blank"

\* The compiler accepts exactly the scripts that are one expression and builds
\* exactly the tree that matching the braces gives.
CompilesAsDocumented ==
  /\ status = "done" => Accepted /\ parent = ReferenceTree
  /\ status = "error" => ~ Accepted

\* It does so on every script on which read_line and the Readme can agree,
\* whatever is nested, commented, left open or closed too often in it.
CompilesExactly == Undisputed => CompilesAsDocumented

\* No node of a compiled tree is read from behind the first blank line.
EndsAtBlankLine == status = "done" => DOMAIN parent \subseteq 1..(EndLine - 1)

\* An activation hands its node to the function its caller is reading: the
\* recursion mirrors the nesting of the functions, so no argument is attached
\* to the wrong function and no function is open twice.
StackMirrorsNesting ==
  \A i \in 2..Len(stack) :
    /\ stack[i].node = stack[i - 1].aux /\ stack[i].node # Null
    /\ stack[i].node \notin DOMAIN parent
    /\ \A j \in 1..(i - 1) : stack[j].node < stack[i].node

\* Compilation ends, also for scripts without a final brace: the blank lines
\* that get_line returns past the end close every activation.
Terminates == <>(status \in {"done", "error"})
=============================================================================
