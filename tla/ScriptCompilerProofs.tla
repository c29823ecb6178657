------------------------ MODULE ScriptCompilerProofs ------------------------
(***************************************************************************)
(* Theorems about Compiler::read_line, for scripts of every length.        *)
(***************************************************************************)
EXTENDS ScriptCompiler, SequenceTheorems, FiniteSetTheorems, WellFoundedInduction, TLAPS

-----------------------------------------------------------------------------
(* The stack of activations.  Nodes are line numbers, so nesting shows as   *)
(* an order: the functions that are open, outermost first, are increasing,  *)
(* all of them lie before the line being read, and so does every node that  *)
(* is attached already.                                                     *)

Activations == [node : Nat, aux : Nat, next : Nat]

ActivationOK(a) ==
  /\ a.next \in 1..(Len(script) + 2)
  /\ a.node <= Len(script) /\ a.node < a.next
  /\ a.aux <= Len(script) /\ a.aux <= a.next
  /\ a.aux # Null => a.node < a.aux /\ a.aux \notin DOMAIN parent

StackInv ==
  /\ script \in Seq(Kinds)
  /\ stack \in Seq(Activations)
  /\ status \in {"reading", "checking", "done", "error"}
  /\ status = "reading" => stack # <<>>
  /\ rest \in 0..(Len(script) + 2)
  /\ DOMAIN parent \subseteq 1..Len(script)
  /\ \A i \in 1..Len(stack) : ActivationOK(stack[i])
  /\ \A i \in 2..Len(stack) : stack[i].node = stack[i - 1].aux /\ stack[i].node # Null
  /\ \A i \in 2..Len(stack) : \A j \in 1..(i - 1) : stack[j].node < stack[i].node
  /\ stack # <<>> =>
       /\ Top.aux < Top.next
       /\ Top.aux = Null => Top.next <= Len(script) + 1
       /\ \A m \in DOMAIN parent : m < Top.next

(* The line being read is a line of the script unless it reads as blank     *)
(* (get_line past the end of the file).                                     *)
LEMMA HereInside ==
  ASSUME StackInv, Reading, Here # "blank"
  PROVE  Top.next \in 1..Len(script)
<1>1. Len(stack) \in 1..Len(stack) /\ Top \in Activations
  BY DEF StackInv, Reading, Top
<1>2. Top.next \in Nat /\ Top.next >= 1
  BY <1>1 DEF StackInv, ActivationOK, Top
<1> QED
  BY <1>2 DEF Here, Line, StackInv

(* A return drops an activation; its caller keeps its function and goes on  *)
(* at the line behind the one just read. Behind the outermost activation    *)
(* get_executable_tree goes on.                                             *)
LEMMA ReturnShape ==
  ASSUME StackInv, Reading, Return, NEW n, n = Len(stack)
  PROVE  /\ n \in Nat /\ n >= 1
         /\ n = 1 => stack' = <<>> /\ rest' = Back /\ status' = "checking"
         /\ n > 1 =>
              /\ stack' \in Seq(Activations) /\ Len(stack') = n - 1 /\ stack' # <<>>
              /\ \A i \in 1..(n - 1) : /\ stack'[i].node = stack[i].node
                                       /\ stack'[i].aux = stack[i].aux
                                       /\ stack'[i].next = IF i = n - 1 THEN Back ELSE stack[i].next
              /\ rest' = rest /\ status' = status
<1> DEFINE callers == SubSeq(stack, 1, n - 1)
<1>1. n \in Nat /\ n >= 1 /\ stack[n] \in Activations /\ ActivationOK(stack[n])
  BY DEF StackInv, Reading
<1>2. Back \in 1..(Len(script) + 3) /\ Back = stack[n].next + 1
  BY <1>1 DEF Back, Top, ActivationOK, StackInv
<1>3. /\ callers \in Seq(Activations) /\ Len(callers) = n - 1
      /\ \A i \in 1..(n - 1) : callers[i] = stack[i]
  <2>1. \A i \in 1..(n - 1) : stack[i] \in Activations
    BY <1>1 DEF StackInv
  <2>2. /\ SubSeq(stack, 1, n - 1) \in Seq(Activations)
        /\ Len(SubSeq(stack, 1, n - 1)) = IF 1 <= n - 1 THEN (n - 1) - 1 + 1 ELSE 0
        /\ \A i \in 1..((n - 1) - 1 + 1) : SubSeq(stack, 1, n - 1)[i] = stack[1 + i - 1]
    BY <1>1, <2>1, SubSeqProperties
  <2>3. (n - 1) - 1 + 1 = n - 1 /\ \A i \in 1..(n - 1) : 1 + i - 1 = i
    BY <1>1
  <2>4. Len(callers) = n - 1
    BY <1>1, <2>2, <2>3
  <2> QED
    BY <2>2, <2>3, <2>4
<1>4. CASE n = 1
  <2>1. callers = <<>>
    BY <1>3, <1>4
  <2>2. stack' = <<>> /\ rest' = Back /\ status' = "checking"
    BY <2>1 DEF Return
  <2> QED
    BY <1>4, <2>2
<1>5. CASE n > 1
  <2>1. /\ stack' = [callers EXCEPT ![n - 1].next = Back]
        /\ rest' = rest /\ status' = status
    <3>1. callers # <<>>
      <4>1. Len(callers) # 0
        BY <1>1, <1>3, <1>5
      <4>2. Len(<<>>) = 0
        OBVIOUS
      <4> HIDE DEF callers
      <4> QED
        BY <4>1, <4>2, Zenon
    <3> QED
      BY <3>1, <1>3 DEF Return
  <2>2. n - 1 \in 1..(n - 1)
    BY <1>1, <1>5
  <2>3. /\ stack' \in Seq(Activations) /\ Len(stack') = n - 1 /\ stack' # <<>>
        /\ \A i \in 1..(n - 1) : /\ stack'[i].node = stack[i].node
                                 /\ stack'[i].aux = stack[i].aux
                                 /\ stack'[i].next = IF i = n - 1 THEN Back ELSE stack[i].next
    <3>1. callers[n - 1] \in Activations /\ Back \in Nat
      BY <1>3, <2>2, <1>2
    <3>2. [callers[n - 1] EXCEPT !.next = Back] \in Activations
      BY <3>1 DEF Activations
    <3>3. stack' = [callers EXCEPT ![n - 1] = [callers[n - 1] EXCEPT !.next = Back]]
      BY <2>1
    <3>4. /\ stack' \in Seq(Activations) /\ Len(stack') = n - 1
          /\ \A i \in 1..(n - 1) :
               stack'[i] = IF i = n - 1 THEN [callers[n - 1] EXCEPT !.next = Back] ELSE callers[i]
      <4> DEFINE e == [callers[n - 1] EXCEPT !.next = Back]
      <4>1. callers \in Seq(Activations) /\ n - 1 \in 1..Len(callers) /\ e \in Activations
        BY <1>3, <2>2, <3>2
      <4> HIDE DEF callers, e
      <4>2. /\ [callers EXCEPT ![n - 1] = e] \in Seq(Activations)
            /\ Len([callers EXCEPT ![n - 1] = e]) = Len(callers)
            /\ \A j \in 1..Len(callers) :
                 [callers EXCEPT ![n - 1] = e][j] = IF j = n - 1 THEN e ELSE callers[j]
        BY <4>1, ExceptSeq
      <4>3. stack' = [callers EXCEPT ![n - 1] = e]
        BY <3>3 DEF e
      <4>4. Len(callers) = n - 1
        BY <1>3
      <4> QED
        BY <4>2, <4>3, <4>4 DEF e
    <3>5. ASSUME NEW i \in 1..(n - 1)
          PROVE  /\ stack'[i].node = stack[i].node
                 /\ stack'[i].aux = stack[i].aux
                 /\ stack'[i].next = IF i = n - 1 THEN Back ELSE stack[i].next
      <4>1. callers[i] \in Activations /\ callers[i] = stack[i]
        BY <1>3
      <4>2. /\ [callers[i] EXCEPT !.next = Back].node = callers[i].node
            /\ [callers[i] EXCEPT !.next = Back].aux = callers[i].aux
            /\ [callers[i] EXCEPT !.next = Back].next = Back
        BY <4>1 DEF Activations
      <4> QED
        BY <3>4, <4>1, <4>2
    <3>6. stack' # <<>>
      BY <3>4, <2>2, <1>1
    <3>7. stack' \in Seq(Activations) /\ Len(stack') = n - 1 /\ stack' # <<>>
      BY <3>4, <3>6
    <3> QED
      BY <3>5, <3>7
  <2> QED
    BY <1>1, <1>5, <2>1, <2>3
<1> QED
  BY <1>1, <1>4, <1>5

(* A return gives its caller the line behind the one just read; the node it *)
(* may have attached lies between the caller's function and that line.      *)
LEMMA ReturnKeeps ==
  ASSUME StackInv, Reading, Return, script' = script,
         Top.next <= Len(script) + 1,
         DOMAIN parent' \subseteq
           DOMAIN parent \cup {m \in 1..Len(script) : Top.node < m /\ m <= Top.next}
  PROVE  StackInv'
<1> DEFINE n == Len(stack)
<1>1. n \in Nat /\ n >= 1 /\ stack[n] \in Activations /\ ActivationOK(stack[n])
  BY DEF StackInv, Reading
<1>2. Back \in 1..(Len(script) + 2) /\ Back = stack[n].next + 1
  BY <1>1 DEF Back, Top, ActivationOK, StackInv
<1>4. DOMAIN parent' \subseteq 1..Len(script)
  BY DEF StackInv
<1>3. /\ n = 1 => stack' = <<>> /\ rest' = Back /\ status' = "checking"
      /\ n > 1 =>
           /\ stack' \in Seq(Activations) /\ Len(stack') = n - 1 /\ stack' # <<>>
           /\ \A i \in 1..(n - 1) : /\ stack'[i].node = stack[i].node
                                    /\ stack'[i].aux = stack[i].aux
                                    /\ stack'[i].next = IF i = n - 1 THEN Back ELSE stack[i].next
           /\ rest' = rest /\ status' = status
  BY ReturnShape
<1>5. CASE n = 1
  <2>1. stack' = <<>> /\ rest' = Back /\ status' = "checking"
    BY <1>3, <1>5
  <2> QED
    BY <2>1, <1>2, <1>4 DEF StackInv
<1>6. CASE n > 1
  <2>1. rest' = rest /\ status' = status
    BY <1>3, <1>6
  <2>2. n - 1 \in 1..(n - 1) /\ n \in 2..n
    BY <1>6, <1>1
  <2>3. /\ stack' \in Seq(Activations) /\ Len(stack') = n - 1 /\ stack' # <<>>
        /\ \A i \in 1..(n - 1) : /\ stack'[i].node = stack[i].node
                                 /\ stack'[i].aux = stack[i].aux
                                 /\ stack'[i].next = IF i = n - 1 THEN Back ELSE stack[i].next
    BY <1>3, <1>6
  <2>4. \A i \in 1..(n - 1) : stack[i].node < stack[n].node /\ stack[i] \in Activations
    BY <2>2, <1>1 DEF StackInv
  <2>11. /\ \A i \in 1..n : stack[i].node \in Nat /\ stack[i].aux \in Nat
        /\ \A i \in 2..n : stack[i].node = stack[i - 1].aux /\ stack[i].node # Null
    <3>1. \A i \in 1..n : stack[i] \in Activations
      BY <1>1 DEF StackInv
    <3> QED
      BY <3>1 DEF StackInv, Activations
  <2>5. \A i \in 1..(n - 1) : stack[i].aux <= stack[n].node
    <3>1. ASSUME NEW i \in 1..(n - 1)
          PROVE  stack[i].aux <= stack[n].node
      <4>1. i + 1 \in 2..n /\ (i + 1) - 1 = i
        BY <1>1
      <4>2. stack[i + 1].node = stack[i].aux
        BY <4>1, <2>11
      <4>3. i + 1 = n \/ i + 1 \in 1..(n - 1)
        BY <4>1
      <4>4. stack[i + 1].node \in Nat /\ stack[n].node \in Nat
        BY <4>1, <1>1, <2>11
      <4> QED
        BY <4>2, <4>3, <4>4, <2>4
    <3> QED
      BY <3>1
  <2>6. ASSUME NEW i \in 1..(n - 1)
        PROVE  ActivationOK(stack[i])'
    <3>1. ActivationOK(stack[i]) /\ stack[i].node \in Nat /\ stack[i].aux \in Nat
      BY <2>11, <1>1 DEF StackInv
    <3>2. stack[i].aux \notin DOMAIN parent => stack[i].aux \notin DOMAIN parent'
      BY <2>5, <3>1, <2>11, <1>1 DEF Top
    <3>3. stack[i].node < Back /\ stack[i].aux < Back
      BY <2>4, <2>5, <3>1, <1>1, <1>2, <2>11 DEF ActivationOK, Activations
    <3>4. stack'[i].next \in 1..(Len(script) + 2)
      BY <2>3, <3>1, <1>2 DEF ActivationOK
    <3>5. stack[i].node < stack'[i].next /\ stack[i].aux <= stack'[i].next
      <4>1. stack'[i].next = Back \/ stack'[i].next = stack[i].next
        BY <2>3
      <4> QED
        BY <4>1, <3>1, <3>3, <1>2 DEF ActivationOK
    <3> QED
      BY <3>1, <3>2, <3>4, <3>5, <2>3 DEF ActivationOK
  <2>7. ASSUME NEW i \in 2..(n - 1)
        PROVE  /\ stack'[i].node = stack'[i - 1].aux /\ stack'[i].node # Null
               /\ \A j \in 1..(i - 1) : stack'[j].node < stack'[i].node
    <3>1. i \in 2..n /\ i \in 1..(n - 1) /\ i - 1 \in 1..(n - 1)
      BY <1>1
    <3>2. \A j \in 1..(i - 1) : j \in 1..(n - 1) /\ stack[j].node < stack[i].node
      BY <3>1, <1>1 DEF StackInv
    <3> QED
      BY <3>1, <3>2, <2>3, <2>11
  <2>9. Top'.next = Back /\ Top'.aux # Null /\ Top'.aux < Back
    <3>1. Top' = stack'[n - 1]
      BY <2>3 DEF Top
    <3>2. stack[n].node # Null /\ stack[n].node = stack[n - 1].aux
      BY <2>2, <2>11
    <3>3. Top'.next = Back /\ Top'.aux = stack[n].node
      BY <3>1, <3>2, <2>2, <2>3
    <3>4. stack[n].node < Back
      BY <2>11, <1>1, <1>2 DEF ActivationOK
    <3> QED
      BY <3>2, <3>3, <3>4
  <2>10. ASSUME NEW m \in DOMAIN parent'
         PROVE  m < Back
    <3>1. m \in Nat /\ stack[n].next \in Nat
      BY <1>4, <1>1 DEF ActivationOK, StackInv
    <3>2. m < stack[n].next \/ m <= stack[n].next
      BY <1>1 DEF StackInv, Top
    <3> QED
      BY <3>1, <3>2, <1>2
  <2> QED
    BY <2>1, <2>3, <2>6, <2>7, <2>9, <2>10, <1>4 DEF StackInv
<1>7. n = 1 \/ n > 1
  <2>1. n \in Nat /\ n >= 1
    BY <1>1
  <2> HIDE DEF n
  <2> QED
    BY <2>1
<1> QED
  BY <1>5, <1>6, <1>7, Zenon

(* The innermost activation with a function in hand.                        *)
Holding(a) == [Top EXCEPT !.aux = a]

(* A call adds an activation; the caller holds function a.                  *)
LEMMA CallShape ==
  ASSUME StackInv, Reading, NEW a \in Nat, NEW x \in Nat, NEW n, n = Len(stack),
         stack' = Append([stack EXCEPT ![Len(stack)] = Holding(a)], Activation(a, x))
  PROVE  /\ n \in Nat /\ n >= 1
         /\ stack' \in Seq(Activations) /\ stack' # <<>> /\ Len(stack') = n + 1
         /\ stack'[n + 1] = Activation(a, x)
         /\ \A i \in 1..n : stack'[i] = IF i = n THEN Holding(a) ELSE stack[i]
<1> DEFINE caller == Holding(a)
           new == Activation(a, x)
<1>1. n \in Nat /\ n >= 1 /\ n \in 1..n /\ Top = stack[n] /\ Top \in Activations
  BY DEF StackInv, Reading, Top
<1>2. caller \in Activations /\ new \in Activations
  BY <1>1 DEF Activations, Activation, Null, Holding
<1>3. /\ stack' \in Seq(Activations) /\ stack' # <<>> /\ Len(stack') = n + 1
      /\ stack'[n + 1] = new
      /\ \A i \in 1..n : stack'[i] = IF i = n THEN caller ELSE stack[i]
  <2>1. stack \in Seq(Activations)
    BY DEF StackInv
  <2> DEFINE changed == [stack EXCEPT ![n] = caller]
  <2>2. n \in 1..Len(stack) /\ caller \in Activations /\ new \in Activations
    BY <1>1, <1>2
  <2>3. stack' = Append(changed, new)
    OBVIOUS
  <2> HIDE DEF caller, new
  <2>4. /\ changed \in Seq(Activations) /\ Len(changed) = n
        /\ \A i \in 1..n : changed[i] = IF i = n THEN caller ELSE stack[i]
    BY <2>1, <2>2, ExceptSeq
  <2> HIDE DEF changed
  <2>5. /\ Append(changed, new) \in Seq(Activations)
        /\ Append(changed, new) # <<>>
        /\ Len(Append(changed, new)) = Len(changed) + 1
        /\ \A i \in 1..Len(changed) : Append(changed, new)[i] = changed[i]
        /\ Append(changed, new)[Len(changed) + 1] = new
    BY <2>2, <2>4, AppendProperties
  <2> QED
    BY <2>3, <2>4, <2>5
<1> QED
  BY <1>1, <1>3

(* A call of read_line: the caller has the function a in hand, and its      *)
(* argument is read from line x on.                                         *)
LEMMA CallKeeps ==
  ASSUME StackInv, Reading, UNCHANGED <<script, parent, rest, status>>,
         NEW a \in 1..Len(script), NEW x \in 1..(Len(script) + 1),
         Top.node < a, a <= Top.next, Top.next <= x, a < x, a \notin DOMAIN parent,
         stack' = Append([stack EXCEPT ![Len(stack)] = Holding(a)], Activation(a, x))
  PROVE  StackInv'
<1> DEFINE n == Len(stack)
           caller == Holding(a)
           new == Activation(a, x)
<1>1. n \in Nat /\ n >= 1 /\ n \in 1..n /\ Top = stack[n] /\ Top \in Activations
  BY DEF StackInv, Reading, Top
<1>2. /\ caller \in Activations /\ new \in Activations
      /\ caller.node = Top.node /\ caller.aux = a /\ caller.next = Top.next
      /\ new.node = a /\ new.aux = Null /\ new.next = x
  BY <1>1 DEF Activations, Activation, Null, Holding
<1>3. /\ stack' \in Seq(Activations) /\ stack' # <<>> /\ Len(stack') = n + 1
      /\ stack'[n + 1] = new
      /\ \A i \in 1..n : stack'[i] = IF i = n THEN caller ELSE stack[i]
  <2>1. a \in Nat /\ x \in Nat
    OBVIOUS
  <2>2. stack' = Append([stack EXCEPT ![Len(stack)] = Holding(a)], Activation(a, x))
    OBVIOUS
  <2>3. StackInv /\ Reading /\ n = Len(stack)
    OBVIOUS
  <2>4. /\ n \in Nat /\ n >= 1
        /\ stack' \in Seq(Activations) /\ stack' # <<>> /\ Len(stack') = n + 1
        /\ stack'[n + 1] = Activation(a, x)
        /\ \A i \in 1..n : stack'[i] = IF i = n THEN Holding(a) ELSE stack[i]
    <3> HIDE DEF n
    <3> QED
      BY <2>1, <2>2, <2>3, CallShape
  <2> QED
    BY <2>4, Zenon
<1> HIDE DEF caller, new
<1>4. /\ \A i \in 1..n : /\ stack[i].node \in Nat /\ stack[i].aux \in Nat /\ stack[i].next \in Nat
                         /\ ActivationOK(stack[i])
      /\ \A i \in 2..n : /\ stack[i].node = stack[i - 1].aux /\ stack[i].node # Null
                         /\ \A j \in 1..(i - 1) : stack[j].node < stack[i].node
  <2>1. \A i \in 1..n : stack[i] \in Activations
    BY <1>1 DEF StackInv
  <2> QED
    BY <2>1 DEF StackInv, Activations
<1>5. ASSUME NEW i \in 1..(n + 1)
      PROVE  ActivationOK(stack[i])'
  <2>1. CASE i = n + 1
    BY <2>1, <1>2, <1>3 DEF ActivationOK, Null
  <2>2. CASE i = n
    <3>1. stack'[i] = caller /\ ActivationOK(stack[n])
      BY <2>2, <1>1, <1>3, <1>4
    <3> QED
      BY <3>1, <1>1, <1>2 DEF ActivationOK
  <2>3. CASE i \in 1..(n - 1)
    <3>1. i \in 1..n /\ i # n
      BY <2>3, <1>1
    <3>2. stack'[i] = stack[i] /\ ActivationOK(stack[i])
      BY <3>1, <1>3, <1>4
    <3> QED
      BY <3>2 DEF ActivationOK
  <2> QED
    BY <1>1, <2>1, <2>2, <2>3
<1>6. ASSUME NEW j \in 1..n
      PROVE  stack[j].node < a
  <2>1. j = n \/ (n \in 2..n /\ j \in 1..(n - 1))
    BY <1>1
  <2>2. j = n \/ stack[j].node < stack[n].node
    BY <2>1, <1>4
  <2>3. stack[j].node \in Nat /\ stack[n].node \in Nat
    BY <1>1, <1>4
  <2> QED
    BY <2>2, <2>3, <1>1
<1>7. ASSUME NEW i \in 2..(n + 1)
      PROVE  /\ stack'[i].node = stack'[i - 1].aux /\ stack'[i].node # Null
             /\ \A j \in 1..(i - 1) : stack'[j].node < stack'[i].node
  <2>1. \A j \in 1..n : stack'[j].node = stack[j].node
    BY <1>1, <1>2, <1>3
  <2>2. CASE i = n + 1
    <3>1. i - 1 = n
      BY <2>2, <1>1
    <3>2. stack'[i].node = a /\ stack'[n].aux = a
      BY <2>2, <1>1, <1>2, <1>3
    <3>3. \A j \in 1..n : stack'[j].node < a
      BY <2>1, <1>6
    <3> QED
      BY <3>1, <3>2, <3>3 DEF Null
  <2>3. CASE i \in 2..n
    <3>1. i \in 1..n /\ i - 1 \in 1..(n - 1) /\ i - 1 # n /\ i - 1 \in 1..n
      BY <2>3, <1>1
    <3>2. stack'[i - 1] = stack[i - 1]
      BY <3>1, <1>3
    <3>3. \A j \in 1..(i - 1) : j \in 1..n
      BY <3>1
    <3> QED
      BY <2>1, <2>3, <3>1, <3>2, <3>3, <1>4
  <2> QED
    BY <1>1, <2>2, <2>3
<1>8. Top' = new
  BY <1>3 DEF Top
<1>9. \A m \in DOMAIN parent' : m < x
  <2>1. \A m \in DOMAIN parent : m < Top.next /\ m \in Nat
    BY DEF StackInv, Reading
  <2> QED
    BY <2>1, <1>1 DEF Activations
<1>10. Top'.aux = Null /\ Top'.next = x /\ x <= Len(script) + 1 /\ Top'.aux < Top'.next
  BY <1>2, <1>8 DEF Null
<1>11. \A i \in 1..Len(stack') : ActivationOK(stack[i])'
  BY <1>3, <1>5
<1>12. \A i \in 2..Len(stack') :
         /\ stack'[i].node = stack'[i - 1].aux /\ stack'[i].node # Null
         /\ \A j \in 1..(i - 1) : stack'[j].node < stack'[i].node
  BY <1>3, <1>7
<1> HIDE DEF n
<1> QED
  BY <1>3, <1>9, <1>10, <1>11, <1>12 DEF StackInv

(* Every step of read_line keeps the order of the stack.                    *)
LEMMA NextStack == StackInv /\ [Next]_vars => StackInv'
<1> SUFFICES ASSUME StackInv, [Next]_vars
             PROVE  StackInv'
  OBVIOUS
<1> DEFINE n == Len(stack)
<1>1. ASSUME Reading
      PROVE  /\ n \in Nat /\ n >= 1 /\ n \in 1..n /\ Top = stack[n] /\ Top \in Activations
             /\ Top.node \in Nat /\ Top.aux \in Nat /\ Top.next \in Nat
             /\ ActivationOK(Top) /\ Len(script) \in Nat
  <2>1. n \in Nat /\ n >= 1 /\ n \in 1..n /\ Top = stack[n] /\ Top \in Activations
    BY <1>1 DEF StackInv, Reading, Top
  <2>2. Len(script) \in Nat /\ ActivationOK(Top)
    BY <2>1 DEF StackInv
  <2> QED
    BY <2>1, <2>2 DEF Activations
<1>2. CASE BlankLine
  <2>1. Top.next <= Len(script) + 1 /\ Return
    BY <1>2 DEF BlankLine, StackInv, Reading
  <2> QED
    BY <2>1, <1>2, ReturnKeeps DEF BlankLine
<1>3. CASE UnfinishedFunction \/ StrayClose \/ UnknownFunction
  <2>1. status' = "error" /\ UNCHANGED <<script, stack, parent, rest>>
    BY <1>3 DEF UnfinishedFunction, StrayClose, UnknownFunction, Throw
  <2> QED
    BY <2>1 DEF StackInv, ActivationOK, Top
<1>4. CASE Comment
  <2>1. Top.next \in 1..Len(script) /\ Reading
    BY <1>4, HereInside DEF Comment
  <2> DEFINE moved == [Top EXCEPT !.next = Top.next + 1]
  <2>2. /\ moved \in Activations
        /\ moved.node = Top.node /\ moved.aux = Top.aux /\ moved.next = Top.next + 1
    BY <1>1, <2>1 DEF Activations
  <2>3. stack' = [stack EXCEPT ![n] = moved]
    BY <1>4, <1>1, <2>1 DEF Comment, Behind
  <2> HIDE DEF moved
  <2>4. /\ stack' \in Seq(Activations) /\ Len(stack') = n
        /\ \A i \in 1..n : stack'[i] = IF i = n THEN moved ELSE stack[i]
    BY <2>1, <2>2, <2>3, <1>1, ExceptSeq DEF StackInv
  <2>5. /\ status' = status /\ rest' = rest /\ script' = script /\ parent' = parent
    BY <1>4 DEF Comment
  <2>6. /\ stack' # <<>> /\ Top' = moved
    BY <2>1, <2>4, <1>1 DEF Top
  <2>7. ASSUME NEW i \in 1..n
        PROVE  /\ ActivationOK(stack[i])'
               /\ stack'[i].node = stack[i].node /\ stack'[i].aux = stack[i].aux
    <3>1. CASE i = n
      BY <3>1, <2>1, <2>2, <2>4, <2>5, <1>1 DEF ActivationOK
    <3>2. CASE i # n
      BY <3>2, <2>4, <2>5 DEF ActivationOK, StackInv
    <3> QED
      BY <3>1, <3>2
  <2>8. ASSUME NEW i \in 2..n
        PROVE  /\ stack'[i].node = stack'[i - 1].aux /\ stack'[i].node # Null
               /\ \A j \in 1..(i - 1) : stack'[j].node < stack'[i].node
    <3>1. i \in 1..n /\ i - 1 \in 1..n /\ \A j \in 1..(i - 1) : j \in 1..n
      BY <1>1, <2>1
    <3> QED
      BY <3>1, <2>7 DEF StackInv
  <2>9. /\ Top'.aux < Top'.next
        /\ Top'.aux = Null => Top'.next <= Len(script) + 1
        /\ \A m \in DOMAIN parent : m < Top'.next
    <3>1. \A m \in DOMAIN parent : m \in Nat /\ m < Top.next
      BY <2>1 DEF StackInv, Reading
    <3> QED
      BY <3>1, <2>1, <2>2, <2>6, <1>1 DEF StackInv, Reading
  <2> HIDE DEF n
  <2> QED
    BY <2>4, <2>5, <2>6, <2>7, <2>8, <2>9 DEF StackInv
<1>5. CASE Close
  <2>1. Top.next \in 1..Len(script) /\ Reading
    BY <1>5, HereInside DEF Close
  <2>2. Top.aux # Null /\ Top.aux \in 1..Len(script) /\ Top.node < Top.aux /\ Top.aux <= Top.next
    BY <1>5, <1>1, <2>1 DEF Close, ActivationOK, Null
  <2>3. DOMAIN parent' = DOMAIN parent \cup {Top.aux}
    BY <1>5 DEF Close, Attached
  <2>4. Top.next <= Len(script) + 1
    BY <2>1, <1>1
  <2> QED
    BY <2>1, <2>2, <2>3, <2>4, <1>5, ReturnKeeps DEF Close
<1>6. CASE Argument
  <2>1. Top.next \in 1..Len(script) /\ Reading /\ Top.aux # Null
    BY <1>6, HereInside DEF Argument, Leaves
  <2>2. Top.aux \in 1..Len(script) /\ Top.node < Top.aux /\ Top.aux \notin DOMAIN parent
    BY <1>1, <2>1 DEF ActivationOK, Null
  <2>3. Top.aux < Top.next /\ Top.next \in 1..(Len(script) + 1)
    BY <2>1, <1>1 DEF StackInv, Reading
  <2>4. [Top EXCEPT !.aux = Top.aux] = Top
    BY <2>1, <1>1 DEF Activations
  <2>5. [stack EXCEPT ![Len(stack)] = Top] = stack
    BY <2>1, <1>1 DEF StackInv
  <2>6. stack' = Append([stack EXCEPT ![Len(stack)] = Holding(Top.aux)],
                        Activation(Top.aux, Top.next))
    BY <1>6, <2>4, <2>5 DEF Argument, Receiver, Holding
  <2>7. UNCHANGED <<script, parent, rest, status>>
    BY <1>6 DEF Argument
  <2>8. Top.aux <= Top.next /\ Top.next <= Top.next
    BY <2>1, <2>3, <1>1
  <2> QED
    BY <2>1, <2>2, <2>3, <2>6, <2>7, <2>8, CallKeeps
<1>7. CASE Open
  <2>1. Top.next \in 1..Len(script) /\ Reading /\ Top.aux = Null
    BY <1>7, HereInside DEF Open
  <2>2. /\ Top.node < Top.next /\ Top.next \notin DOMAIN parent
        /\ Top.next <= Top.next /\ Top.next < Top.next + 1 /\ Top.next <= Top.next + 1
        /\ Top.next + 1 \in 1..(Len(script) + 1)
    BY <2>1, <1>1 DEF ActivationOK, StackInv, Reading
  <2>3. [stack EXCEPT ![Len(stack)].aux = Top.next]
          = [stack EXCEPT ![Len(stack)] = Holding(Top.next)]
    BY <2>1, <1>1 DEF Holding
  <2>4. stack' = Append([stack EXCEPT ![Len(stack)] = Holding(Top.next)],
                        Activation(Top.next, Top.next + 1))
    BY <1>7, <2>3 DEF Open
  <2>5. UNCHANGED <<script, parent, rest, status>>
    BY <1>7 DEF Open
  <2> QED
    BY <2>1, <2>2, <2>4, <2>5, CallKeeps
<1>8. CASE Leaf
  <2>1. Top.next \in 1..Len(script) /\ Reading
    BY <1>8, HereInside DEF Leaf, Leaves
  <2>2. Top.node < Top.next /\ Top.next <= Top.next /\ Top.next <= Len(script) + 1
    BY <1>1, <2>1 DEF ActivationOK
  <2>3. DOMAIN parent' = DOMAIN parent \cup {Top.next}
    BY <1>8 DEF Leaf, Attached
  <2> QED
    BY <2>1, <2>2, <2>3, <1>8, ReturnKeeps DEF Leaf
<1>9. CASE CheckRest
  <2>1. status' \in {"done", "error"} /\ UNCHANGED <<script, stack, parent, rest>>
    BY <1>9 DEF CheckRest
  <2> QED
    BY <2>1 DEF StackInv, ActivationOK, Top
<1>10. CASE UNCHANGED vars
  BY <1>10 DEF vars, StackInv, ActivationOK, Top
<1> QED
  BY <1>2, <1>3, <1>4, <1>5, <1>6, <1>7, <1>8, <1>9, <1>10 DEF Next, Step, Finished

(* get_executable_tree reads from the first line, with the root in hand.    *)
LEMMA InitStack == Init => StackInv
<1> SUFFICES ASSUME Init
             PROVE  StackInv
  OBVIOUS
<1>1. script \in Seq(Kinds) /\ Len(script) \in Nat
  BY KindAssumption DEF Init, Scripts
<1>2. /\ stack = <<Activation(Root, 1)>> /\ Len(stack) = 1
      /\ Activation(Root, 1) = [node |-> 0, aux |-> 0, next |-> 1]
      /\ Activation(Root, 1) \in Activations
  BY DEF Init, Activation, Activations, Root, Null
<1>3. parent = <<>> /\ DOMAIN parent = {} /\ rest = 0 /\ status = "reading"
  BY DEF Init
<1>4. stack \in Seq(Activations) /\ stack # <<>> /\ Top = Activation(Root, 1)
  BY <1>2 DEF Top
<1>5. \A i \in 1..Len(stack) : ActivationOK(stack[i])
  BY <1>1, <1>2 DEF ActivationOK, Null
<1> QED
  BY <1>1, <1>2, <1>3, <1>4, <1>5 DEF StackInv, Null

(* For every script, of whatever length: what read_line reads lies at most  *)
(* one line behind the end of the file, and every node it makes is a line   *)
(* of the file (compiler.cpp:17-61).                                        *)
THEOREM TypeTheorem == Spec => []TypeOK
<1>1. StackInv => TypeOK
  <2> SUFFICES ASSUME StackInv
               PROVE  TypeOK
    OBVIOUS
  <2>1. \A i \in 1..Len(stack) : stack[i] \in Activations /\ ActivationOK(stack[i])
    BY DEF StackInv
  <2>2. Len(script) \in Nat
    BY DEF StackInv
  <2> QED
    BY <2>1, <2>2 DEF StackInv, TypeOK, ActivationOK, Activations
<1> QED
  BY <1>1, InitStack, NextStack, PTL DEF Spec

(* For every script: the recursion of read_line mirrors the nesting of the  *)
(* functions; an argument is attached to the function that encloses it.     *)
THEOREM StackTheorem == Spec => []StackMirrorsNesting
<1>1. StackInv => StackMirrorsNesting
  <2> SUFFICES ASSUME StackInv, NEW i \in 2..Len(stack)
               PROVE  /\ stack[i].node = stack[i - 1].aux /\ stack[i].node # Null
                      /\ stack[i].node \notin DOMAIN parent
                      /\ \A j \in 1..(i - 1) : stack[j].node < stack[i].node
    BY DEF StackMirrorsNesting
  <2>1. i - 1 \in 1..Len(stack) /\ stack[i].node = stack[i - 1].aux /\ stack[i].node # Null
    BY DEF StackInv
  <2>2. stack[i].node \notin DOMAIN parent
    BY <2>1 DEF StackInv, ActivationOK
  <2> QED
    BY <2>1, <2>2 DEF StackInv
<1> QED
  BY <1>1, InitStack, NextStack, PTL DEF Spec

-----------------------------------------------------------------------------
(* The reading of a script by counting braces, with the script as a        *)
(* parameter.                                                              *)

(* Line, for any script.                                                   *)
KindAt(s, n) == IF n <= Len(s) THEN s[n] ELSE "blank"

IsCode(s, n) == KindAt(s, n) \notin {"comment", "blank"}
IsNode(s, n) == IsCode(s, n) /\ KindAt(s, n) # "close"
Comments(s, m, n) == \A k \in m..n : KindAt(s, k) = "comment"

(* The nearest line before n that is no comment opens a function, or it is *)
(* any other line.                                                         *)
AfterOpen(s, n) == \E m \in 1..(n - 1) : KindAt(s, m) = "open" /\ Comments(s, m + 1, n - 1)
AfterOther(s, n) ==
  \E m \in 1..(n - 1) : KindAt(s, m) \notin {"open", "comment"} /\ Comments(s, m + 1, n - 1)

(* The functions open behind line n.                                       *)
Lines(s, n, kind) == {m \in 1..n : KindAt(s, m) = kind}
Balance(s, n) == Cardinality(Lines(s, n, "open")) - Cardinality(Lines(s, n, "close"))

(* Line q opens the innermost function that is open in front of line m.    *)
Around(s, m, q) ==
  /\ q \in 1..(m - 1) /\ KindAt(s, q) = "open" /\ Balance(s, q) = Balance(s, m - 1)
  /\ \A k \in q..(m - 1) : Balance(s, k) >= Balance(s, q)
IsParent(s, m, q) == (q = Root /\ Balance(s, m - 1) = 0) \/ Around(s, m, q)

(* A line more opens a function, closes one, or does neither.              *)
LEMMA BalanceStep ==
  ASSUME NEW s, NEW n \in Nat, n >= 1
  PROVE  /\ Balance(s, n) \in Int /\ Balance(s, n - 1) \in Int
         /\ KindAt(s, n) = "open" => Balance(s, n) = Balance(s, n - 1) + 1
         /\ KindAt(s, n) = "close" => Balance(s, n) = Balance(s, n - 1) - 1
         /\ KindAt(s, n) \notin {"open", "close"} => Balance(s, n) = Balance(s, n - 1)
<1>1. ASSUME NEW kind
      PROVE  /\ IsFiniteSet(Lines(s, n - 1, kind)) /\ IsFiniteSet(Lines(s, n, kind))
             /\ Cardinality(Lines(s, n - 1, kind)) \in Nat
             /\ Cardinality(Lines(s, n, kind)) \in Nat
             /\ KindAt(s, n) = kind =>
                  Cardinality(Lines(s, n, kind)) = Cardinality(Lines(s, n - 1, kind)) + 1
             /\ KindAt(s, n) # kind =>
                  Cardinality(Lines(s, n, kind)) = Cardinality(Lines(s, n - 1, kind))
  <2>1. IsFiniteSet(1..(n - 1)) /\ IsFiniteSet(1..n)
    BY FS_Interval
  <2>2. /\ IsFiniteSet(Lines(s, n - 1, kind)) /\ Cardinality(Lines(s, n - 1, kind)) \in Nat
        /\ IsFiniteSet(Lines(s, n, kind)) /\ Cardinality(Lines(s, n, kind)) \in Nat
    BY <2>1, FS_Subset, FS_CardinalityType DEF Lines
  <2>3. CASE KindAt(s, n) = kind
    <3>1. Lines(s, n, kind) = Lines(s, n - 1, kind) \cup {n} /\ n \notin Lines(s, n - 1, kind)
      BY <2>3 DEF Lines
    <3> QED
      BY <2>2, <2>3, <3>1, FS_AddElement
  <2>4. CASE KindAt(s, n) # kind
    <3>1. Lines(s, n, kind) = Lines(s, n - 1, kind)
      BY <2>4 DEF Lines
    <3> QED
      BY <2>2, <2>4, <3>1
  <2> QED
    BY <2>2, <2>3, <2>4
<1>2. /\ Cardinality(Lines(s, n - 1, "open")) \in Nat /\ Cardinality(Lines(s, n, "open")) \in Nat
      /\ KindAt(s, n) = "open" =>
           Cardinality(Lines(s, n, "open")) = Cardinality(Lines(s, n - 1, "open")) + 1
      /\ KindAt(s, n) # "open" =>
           Cardinality(Lines(s, n, "open")) = Cardinality(Lines(s, n - 1, "open"))
  BY <1>1
<1>3. /\ Cardinality(Lines(s, n - 1, "close")) \in Nat /\ Cardinality(Lines(s, n, "close")) \in Nat
      /\ KindAt(s, n) = "close" =>
           Cardinality(Lines(s, n, "close")) = Cardinality(Lines(s, n - 1, "close")) + 1
      /\ KindAt(s, n) # "close" =>
           Cardinality(Lines(s, n, "close")) = Cardinality(Lines(s, n - 1, "close"))
  BY <1>1
<1>4. "open" # "close"
  OBVIOUS
<1> QED
  BY <1>2, <1>3, <1>4 DEF Balance

(* Lines that are no code keep what is open.                               *)
LEMMA BalanceSame ==
  ASSUME NEW s, NEW m \in Nat, NEW n \in Nat, m <= n,
         \A k \in (m + 1)..n : ~ IsCode(s, k)
  PROVE  Balance(s, n) = Balance(s, m)
<1>1. ASSUME NEW kind \in {"open", "close"}
      PROVE  Lines(s, n, kind) = Lines(s, m, kind)
  <2>1. ASSUME NEW k \in Lines(s, n, kind)
        PROVE  k \in 1..m
    <3>1. k \in 1..n /\ IsCode(s, k)
      BY <2>1, <1>1 DEF Lines, IsCode
    <3> QED
      BY <3>1
  <2> QED
    BY <2>1 DEF Lines
<1> QED
  BY <1>1 DEF Balance

(* Nothing is open behind comments.                                        *)
LEMMA BalanceComments ==
  ASSUME NEW s, NEW n \in Nat, Comments(s, 1, n)
  PROVE  Balance(s, n) = 0
<1>1. ASSUME NEW kind \in {"open", "close"}
      PROVE  Lines(s, n, kind) = {}
  BY DEF Lines, Comments
<1>2. Cardinality({}) = 0
  BY FS_EmptySet
<1> QED
  BY <1>1, <1>2 DEF Balance

(* The nearest line before n that is no comment is one line only.          *)
LEMMA NotBoth ==
  ASSUME NEW s, NEW n \in Nat
  PROVE  /\ ~ (AfterOpen(s, n) /\ AfterOther(s, n))
         /\ Comments(s, 1, n - 1) => ~ AfterOpen(s, n) /\ ~ AfterOther(s, n)
<1>1. ASSUME NEW l \in 1..(n - 1), NEW m \in 1..(n - 1),
             KindAt(s, l) # "comment", KindAt(s, m) # "comment",
             Comments(s, l + 1, n - 1), Comments(s, m + 1, n - 1)
      PROVE  l = m
  BY <1>1 DEF Comments
<1> QED
  BY <1>1 DEF AfterOpen, AfterOther, Comments

-----------------------------------------------------------------------------
(* What read_line has found out when it is about to read line p.           *)

(* No line in front of p ends the script or makes it wrong.                *)
Clean(s, p) ==
  \A k \in 1..(p - 1) :
    /\ (k <= Len(s) /\ KindAt(s, k) = "blank") => AfterOpen(s, k)
    /\ KindAt(s, k) # "unknown"
    /\ KindAt(s, k) = "close" => AfterOther(s, k)

(* d functions are open in front of p; F lists them, the outermost first.  *)
OpenAt(s, p, d, F) ==
  /\ Balance(s, p - 1) = d
  /\ d = 0 => Comments(s, 1, p - 1)
  /\ d > 0 => Comments(s, 1, F[1] - 1)
  /\ \A i \in 1..d : /\ F[i] \in 1..(p - 1) /\ KindAt(s, F[i]) = "open"
                     /\ Balance(s, F[i]) = i
                     /\ \A k \in F[i]..(p - 1) : Balance(s, k) >= i

(* The tree has the nodes in front of p but the functions open, each under *)
(* the innermost function around it.                                       *)
TreeOf(s, p, d, F, tree) ==
  /\ tree = [m \in DOMAIN tree |-> tree[m]]
  /\ \A m \in DOMAIN tree : m \in 1..(p - 1) /\ IsNode(s, m) /\ IsParent(s, m, tree[m])
  /\ \A m \in 1..(p - 1) : IsNode(s, m) => m \in DOMAIN tree \/ \E i \in 1..d : F[i] = m

(* A fresh activation reads the first argument of a function, or a further *)
(* one which its caller has seen; another has read an argument.            *)
ArgumentAt(s, p, d, fresh) ==
  /\ fresh /\ d > 0 => AfterOpen(s, p) \/ KindAt(s, p) \in {"open", "unknown"} \cup Leaves
  /\ ~ fresh => d > 0 /\ AfterOther(s, p)

ReadAt(s, p, d, F, fresh, tree) ==
  /\ p \in Nat \ {0} /\ d \in Nat
  /\ Clean(s, p) /\ OpenAt(s, p, d, F) /\ TreeOf(s, p, d, F, tree) /\ ArgumentAt(s, p, d, fresh)

(* A line that opens and closes nothing leaves the open functions open.    *)
LEMMA StillOpen ==
  ASSUME NEW s, NEW p \in Nat \ {0}, NEW d \in Nat, NEW F, NEW G, OpenAt(s, p, d, F),
         \A i \in 1..d : G[i] = F[i],
         KindAt(s, p) \notin {"open", "close"},
         d = 0 => KindAt(s, p) = "comment"
  PROVE  OpenAt(s, p + 1, d, G)
<1>1. Balance(s, p) = d
  BY BalanceStep DEF OpenAt
<1>2. (p + 1) - 1 = p /\ \A k \in 1..p : k \in 1..(p - 1) \/ k = p
  OBVIOUS
<1>3. ASSUME NEW i \in 1..d
      PROVE  /\ G[i] \in 1..p /\ KindAt(s, G[i]) = "open" /\ Balance(s, G[i]) = i
             /\ \A k \in G[i]..p : Balance(s, k) >= i
  <2>1. /\ F[i] \in 1..(p - 1) /\ KindAt(s, F[i]) = "open" /\ Balance(s, F[i]) = i
        /\ \A k \in F[i]..(p - 1) : Balance(s, k) >= i
    BY DEF OpenAt
  <2>2. \A k \in F[i]..p : k \in F[i]..(p - 1) \/ k = p
    BY <2>1
  <2>3. d >= i
    OBVIOUS
  <2> QED
    BY <1>1, <2>1, <2>2, <2>3
<1>4. d = 0 => Comments(s, 1, p)
  BY <1>2 DEF OpenAt, Comments
<1>5. d > 0 => Comments(s, 1, G[1] - 1)
  <2>1. d > 0 => 1 \in 1..d
    OBVIOUS
  <2> QED
    BY <2>1 DEF OpenAt
<1> QED
  BY <1>1, <1>2, <1>3, <1>4, <1>5 DEF OpenAt

(* A comment is stepped over.                                              *)
LEMMA CommentRead ==
  ASSUME NEW s, NEW p, NEW d, NEW F, NEW G, NEW fresh, NEW tree,
         ReadAt(s, p, d, F, fresh, tree), KindAt(s, p) = "comment",
         \A i \in 1..d : G[i] = F[i]
  PROVE  ReadAt(s, p + 1, d, G, fresh, tree)
<1>1. p \in Nat \ {0} /\ d \in Nat
  BY DEF ReadAt
<1>2. (p + 1) - 1 = p /\ \A k \in 1..p : k \in 1..(p - 1) \/ k = p
  BY <1>1
<1>3. Clean(s, p + 1)
  BY <1>2 DEF ReadAt, Clean
<1>4. OpenAt(s, p + 1, d, G)
  BY <1>1, StillOpen DEF ReadAt
<1>5. TreeOf(s, p + 1, d, G, tree)
  <2>1. ~ IsNode(s, p)
    BY DEF IsNode, IsCode
  <2> QED
    BY <1>1, <1>2, <2>1 DEF ReadAt, TreeOf
<1>6. ArgumentAt(s, p + 1, d, fresh)
  <2>1. AfterOpen(s, p) => AfterOpen(s, p + 1)
    BY <1>1, <1>2 DEF AfterOpen, Comments
  <2>2. AfterOther(s, p) => AfterOther(s, p + 1)
    BY <1>1, <1>2 DEF AfterOther, Comments
  <2>3. KindAt(s, p) \notin {"open", "unknown"} \cup Leaves
    BY DEF Leaves
  <2> QED
    BY <2>1, <2>2, <2>3 DEF ReadAt, ArgumentAt
<1> QED
  BY <1>1, <1>3, <1>4, <1>5, <1>6 DEF ReadAt

(* A function begins: a fresh activation reads what follows.               *)
LEMMA OpenRead ==
  ASSUME NEW s, NEW p, NEW d, NEW F, NEW G, NEW tree,
         ReadAt(s, p, d, F, TRUE, tree), KindAt(s, p) = "open",
         \A i \in 1..d : G[i] = F[i], G[d + 1] = p
  PROVE  ReadAt(s, p + 1, d + 1, G, TRUE, tree)
<1>1. p \in Nat \ {0} /\ d \in Nat
  BY DEF ReadAt
<1>2. /\ (p + 1) - 1 = p /\ \A k \in 1..p : k \in 1..(p - 1) \/ k = p
      /\ \A i \in 1..(d + 1) : i \in 1..d \/ i = d + 1
  BY <1>1
<1>3. Clean(s, p + 1)
  BY <1>2 DEF ReadAt, Clean
<1>4. Balance(s, p) = d + 1
  BY <1>1, BalanceStep DEF ReadAt, OpenAt
<1>5. OpenAt(s, p + 1, d + 1, G)
  <2>1. ASSUME NEW i \in 1..(d + 1)
        PROVE  /\ G[i] \in 1..p /\ KindAt(s, G[i]) = "open" /\ Balance(s, G[i]) = i
               /\ \A k \in G[i]..p : Balance(s, k) >= i
    <3>1. CASE i = d + 1
      <4>1. \A k \in p..p : k = p
        BY <1>1
      <4> QED
        BY <3>1, <4>1, <1>1, <1>4
    <3>2. CASE i \in 1..d
      <4>1. /\ F[i] \in 1..(p - 1) /\ KindAt(s, F[i]) = "open" /\ Balance(s, F[i]) = i
            /\ \A k \in F[i]..(p - 1) : Balance(s, k) >= i
        BY <3>2 DEF ReadAt, OpenAt
      <4>2. \A k \in F[i]..p : k \in F[i]..(p - 1) \/ k = p
        BY <1>1, <4>1
      <4>3. d + 1 >= i /\ G[i] = F[i]
        BY <1>1, <3>2
      <4> QED
        BY <1>1, <1>4, <4>1, <4>2, <4>3
    <3> QED
      BY <1>2, <3>1, <3>2
  <2>2. Comments(s, 1, G[1] - 1)
    <3>1. CASE d = 0
      BY <3>1 DEF ReadAt, OpenAt
    <3>2. CASE d > 0
      <4>1. 1 \in 1..d
        BY <3>2, <1>1
      <4> QED
        BY <3>2, <4>1 DEF ReadAt, OpenAt
    <3> QED
      BY <1>1, <3>1, <3>2
  <2> QED
    BY <1>1, <1>2, <1>4, <2>1, <2>2 DEF OpenAt
<1>6. TreeOf(s, p + 1, d + 1, G, tree)
  <2>1. ASSUME NEW m \in 1..p, IsNode(s, m)
        PROVE  m \in DOMAIN tree \/ \E i \in 1..(d + 1) : G[i] = m
    <3>1. CASE m = p
      BY <3>1, <1>1
    <3>2. CASE m \in 1..(p - 1)
      <4>1. m \in DOMAIN tree \/ \E i \in 1..d : F[i] = m
        BY <2>1, <3>2 DEF ReadAt, TreeOf
      <4>2. 1..d \subseteq 1..(d + 1)
        BY <1>1
      <4> QED
        BY <4>1, <4>2
    <3> QED
      BY <1>2, <3>1, <3>2
  <2>2. \A m \in 1..(p - 1) : m \in 1..p
    BY <1>1
  <2> QED
    BY <1>2, <2>1, <2>2 DEF ReadAt, TreeOf
<1>7. ArgumentAt(s, p + 1, d + 1, TRUE)
  <2>1. p \in 1..p /\ Comments(s, p + 1, p)
    BY <1>1 DEF Comments
  <2> QED
    BY <1>2, <2>1 DEF ArgumentAt, AfterOpen
<1>8. p + 1 \in Nat \ {0} /\ d + 1 \in Nat
  BY <1>1
<1> QED
  BY <1>8, <1>3, <1>5, <1>6, <1>7, Zenon DEF ReadAt

(* A further argument is handed to a fresh activation.                     *)
LEMMA ArgumentRead ==
  ASSUME NEW s, NEW p, NEW d, NEW F, NEW G, NEW tree,
         ReadAt(s, p, d, F, FALSE, tree), KindAt(s, p) \in {"open", "unknown"} \cup Leaves,
         \A i \in 1..d : G[i] = F[i]
  PROVE  ReadAt(s, p, d, G, TRUE, tree)
<1>1. p \in Nat \ {0} /\ d \in Nat /\ d > 0 /\ 1 \in 1..d
  BY DEF ReadAt, ArgumentAt
<1>2. OpenAt(s, p, d, G)
  BY <1>1 DEF ReadAt, OpenAt
<1>3. TreeOf(s, p, d, G, tree)
  BY DEF ReadAt, TreeOf
<1> QED
  BY <1>1, <1>2, <1>3 DEF ReadAt, ArgumentAt

(* A leaf inside a function is attached to it.                             *)
LEMMA LeafRead ==
  ASSUME NEW s, NEW p, NEW d, NEW F, NEW G, NEW tree, NEW grown,
         ReadAt(s, p, d, F, TRUE, tree), KindAt(s, p) \in Leaves, d > 0,
         \A i \in 1..d : G[i] = F[i],
         grown = [m \in DOMAIN tree \cup {p} |-> IF m = p THEN F[d] ELSE tree[m]]
  PROVE  ReadAt(s, p + 1, d, G, FALSE, grown)
<1>1. p \in Nat \ {0} /\ d \in Nat /\ d \in 1..d
  BY DEF ReadAt
<1>2. (p + 1) - 1 = p /\ \A k \in 1..p : k \in 1..(p - 1) \/ k = p
  BY <1>1
<1>3. KindAt(s, p) \notin {"open", "close", "comment", "blank", "unknown"}
  BY DEF Leaves
<1>4. Clean(s, p + 1)
  BY <1>2, <1>3 DEF ReadAt, Clean
<1>5. OpenAt(s, p + 1, d, G)
  BY <1>1, <1>3, StillOpen DEF ReadAt
<1>6. IsParent(s, p, F[d])
  BY <1>1 DEF ReadAt, OpenAt, IsParent, Around
<1>7. TreeOf(s, p + 1, d, G, grown)
  <2>1. p \in 1..p /\ IsNode(s, p)
    BY <1>1, <1>3 DEF IsNode, IsCode
  <2>2. ASSUME NEW m \in DOMAIN grown
        PROVE  m \in 1..p /\ IsNode(s, m) /\ IsParent(s, m, grown[m])
    <3>1. m = p \/ m \in DOMAIN tree
      OBVIOUS
    <3>2. m # p => grown[m] = tree[m] /\ m \in 1..(p - 1) /\ IsNode(s, m) /\ IsParent(s, m, tree[m])
      BY <3>1 DEF ReadAt, TreeOf
    <3>3. m = p => grown[m] = F[d]
      OBVIOUS
    <3> QED
      BY <1>1, <1>6, <2>1, <3>1, <3>2, <3>3
  <2>3. ASSUME NEW m \in 1..p, IsNode(s, m)
        PROVE  m \in DOMAIN grown \/ \E i \in 1..d : G[i] = m
    BY <1>2, <2>3 DEF ReadAt, TreeOf
  <2> QED
    BY <1>2, <2>2, <2>3 DEF TreeOf
<1>8. ArgumentAt(s, p + 1, d, FALSE)
  <2>1. p \in 1..p /\ Comments(s, p + 1, p)
    BY <1>1 DEF Comments
  <2> QED
    BY <1>1, <1>2, <1>3, <2>1 DEF ArgumentAt, AfterOther
<1>9. p + 1 \in Nat \ {0} /\ d \in Nat
  BY <1>1
<1> QED
  BY <1>9, <1>4, <1>5, <1>7, <1>8, Zenon DEF ReadAt

(* A blank line in the place of a first argument is stepped over.          *)
LEMMA BlankRead ==
  ASSUME NEW s, NEW p, NEW d, NEW F, NEW G, NEW tree,
         ReadAt(s, p, d, F, TRUE, tree), KindAt(s, p) = "blank", d > 0,
         \A i \in 1..d : G[i] = F[i]
  PROVE  ReadAt(s, p + 1, d, G, FALSE, tree)
<1>1. p \in Nat \ {0} /\ d \in Nat
  BY DEF ReadAt
<1>2. (p + 1) - 1 = p /\ \A k \in 1..p : k \in 1..(p - 1) \/ k = p
  BY <1>1
<1>3. AfterOpen(s, p)
  <2>1. KindAt(s, p) \notin {"open", "unknown"} \cup Leaves
    BY DEF Leaves
  <2> QED
    BY <2>1 DEF ReadAt, ArgumentAt
<1>4. Clean(s, p + 1)
  BY <1>2, <1>3 DEF ReadAt, Clean
<1>5. OpenAt(s, p + 1, d, G)
  BY <1>1, StillOpen DEF ReadAt
<1>6. TreeOf(s, p + 1, d, G, tree)
  <2>1. ~ IsNode(s, p)
    BY DEF IsNode, IsCode
  <2> QED
    BY <1>1, <1>2, <2>1 DEF ReadAt, TreeOf
<1>7. ArgumentAt(s, p + 1, d, FALSE)
  <2>1. p \in 1..p /\ Comments(s, p + 1, p)
    BY <1>1 DEF Comments
  <2> QED
    BY <1>1, <1>2, <2>1 DEF ArgumentAt, AfterOther
<1>8. p + 1 \in Nat \ {0} /\ d \in Nat
  BY <1>1
<1> QED
  BY <1>8, <1>4, <1>5, <1>6, <1>7, Zenon DEF ReadAt

(* A brace completes the innermost function, which is attached to the one  *)
(* around it.                                                              *)
LEMMA CloseRead ==
  ASSUME NEW s, NEW p, NEW d, NEW F, NEW G, NEW tree, NEW grown,
         ReadAt(s, p, d, F, FALSE, tree), KindAt(s, p) = "close", d > 1,
         \A i \in 1..(d - 1) : G[i] = F[i],
         grown = [m \in DOMAIN tree \cup {F[d]} |-> IF m = F[d] THEN F[d - 1] ELSE tree[m]]
  PROVE  ReadAt(s, p + 1, d - 1, G, FALSE, grown)
<1>1. /\ p \in Nat \ {0} /\ d \in Nat /\ d \in 1..d /\ d - 1 \in 1..d /\ 1 \in 1..(d - 1)
      /\ AfterOther(s, p)
  BY DEF ReadAt, ArgumentAt
<1>2. /\ (p + 1) - 1 = p /\ \A k \in 1..p : k \in 1..(p - 1) \/ k = p
      /\ \A i \in 1..d : i \in 1..(d - 1) \/ i = d
      /\ 1..(d - 1) \subseteq 1..d
  BY <1>1
<1>3. \A i \in 1..d : /\ F[i] \in 1..(p - 1) /\ KindAt(s, F[i]) = "open" /\ Balance(s, F[i]) = i
                      /\ \A k \in F[i]..(p - 1) : Balance(s, k) >= i
  BY DEF ReadAt, OpenAt
<1>4. Clean(s, p + 1)
  BY <1>1, <1>2 DEF ReadAt, Clean
<1>5. Balance(s, p) = d - 1
  BY <1>1, BalanceStep DEF ReadAt, OpenAt
<1>6. OpenAt(s, p + 1, d - 1, G)
  <2>1. ASSUME NEW i \in 1..(d - 1)
        PROVE  /\ G[i] \in 1..p /\ KindAt(s, G[i]) = "open" /\ Balance(s, G[i]) = i
               /\ \A k \in G[i]..p : Balance(s, k) >= i
    <3>1. \A k \in F[i]..p : k \in F[i]..(p - 1) \/ k = p
      BY <1>1, <1>2, <1>3
    <3>2. d - 1 >= i /\ G[i] = F[i] /\ i \in 1..d
      BY <1>1
    <3> QED
      BY <1>1, <1>3, <1>5, <3>1, <3>2
  <2>2. Comments(s, 1, G[1] - 1)
    BY <1>1 DEF ReadAt, OpenAt
  <2>3. d - 1 # 0
    BY <1>1
  <2> QED
    BY <1>2, <1>5, <2>1, <2>2, <2>3 DEF OpenAt
<1>7. IsParent(s, F[d], F[d - 1])
  <2>1. F[d - 1] \in 1..(F[d] - 1)
    <3>1. F[d - 1] \in F[d]..(p - 1) => Balance(s, F[d - 1]) >= d
      BY <1>1, <1>3
    <3>2. Balance(s, F[d - 1]) = d - 1 /\ F[d - 1] \in 1..(p - 1) /\ F[d] \in 1..(p - 1)
      BY <1>1, <1>3
    <3> QED
      BY <1>1, <3>1, <3>2
  <2>2. Balance(s, F[d] - 1) = d - 1
    <3>1. F[d] \in Nat /\ F[d] >= 1 /\ KindAt(s, F[d]) = "open" /\ Balance(s, F[d]) = d
      BY <1>1, <1>3
    <3> QED
      BY <1>1, <3>1, BalanceStep
  <2>3. F[d] - 1 <= p - 1
    BY <1>1, <1>3
  <2>4. \A k \in F[d - 1]..(F[d] - 1) : k \in F[d - 1]..(p - 1)
    BY <1>1, <1>3, <2>3
  <2> QED
    BY <1>1, <1>3, <2>1, <2>2, <2>4 DEF IsParent, Around
<1>8. TreeOf(s, p + 1, d - 1, G, grown)
  <2>1. F[d] \in 1..p /\ IsNode(s, F[d])
    BY <1>1, <1>3 DEF IsNode, IsCode
  <2>2. ASSUME NEW m \in DOMAIN grown
        PROVE  m \in 1..p /\ IsNode(s, m) /\ IsParent(s, m, grown[m])
    <3>1. m = F[d] \/ m \in DOMAIN tree
      OBVIOUS
    <3>2. m # F[d] => /\ grown[m] = tree[m] /\ m \in 1..(p - 1)
                      /\ IsNode(s, m) /\ IsParent(s, m, tree[m])
      BY <3>1 DEF ReadAt, TreeOf
    <3>3. m = F[d] => grown[m] = F[d - 1]
      OBVIOUS
    <3> QED
      BY <1>1, <1>7, <2>1, <3>1, <3>2, <3>3
  <2>3. ASSUME NEW m \in 1..p, IsNode(s, m)
        PROVE  m \in DOMAIN grown \/ \E i \in 1..(d - 1) : G[i] = m
    <3>1. m # p
      BY <2>3 DEF IsNode
    <3>2. m \in DOMAIN tree \/ \E i \in 1..d : F[i] = m
      BY <1>2, <2>3, <3>1 DEF ReadAt, TreeOf
    <3> QED
      BY <1>2, <3>2
  <2> QED
    BY <1>2, <2>2, <2>3 DEF TreeOf
<1>9. ArgumentAt(s, p + 1, d - 1, FALSE)
  <2>1. p \in 1..p /\ Comments(s, p + 1, p)
    BY <1>1 DEF Comments
  <2>2. d - 1 > 0
    BY <1>1
  <2> QED
    BY <1>2, <2>1, <2>2 DEF ArgumentAt, AfterOther
<1>10. p + 1 \in Nat \ {0} /\ d - 1 \in Nat
  BY <1>1
<1> QED
  BY <1>4, <1>6, <1>8, <1>9, <1>10, Zenon DEF ReadAt

-----------------------------------------------------------------------------
(* The three ways in which the outermost read_line returns, at line p.     *)
BlankEnd(s, p, tree) == Comments(s, 1, p - 1) /\ KindAt(s, p) = "blank" /\ tree = [m \in {} |-> Root]
LeafEnd(s, p, tree) ==
  Comments(s, 1, p - 1) /\ KindAt(s, p) \in Leaves /\ tree = [m \in {p} |-> Root]
CloseEnd(s, p, tree) ==
  /\ Clean(s, p + 1) /\ TreeOf(s, p + 1, 0, <<>>, tree)
  /\ KindAt(s, p) = "close" /\ Balance(s, p) = 0
  /\ \E f \in 1..(p - 1) : /\ KindAt(s, f) = "open" /\ Comments(s, 1, f - 1)
                           /\ \A k \in f..(p - 1) : Balance(s, k) >= 1
EndAt(s, p, tree) ==
  p \in Nat \ {0} /\ (BlankEnd(s, p, tree) \/ LeafEnd(s, p, tree) \/ CloseEnd(s, p, tree))

(* Without a function, there is nothing in the tree yet.                   *)
LEMMA NothingYet ==
  ASSUME NEW s, NEW p, NEW F, NEW tree, ReadAt(s, p, 0, F, TRUE, tree)
  PROVE  p \in Nat \ {0} /\ Comments(s, 1, p - 1) /\ DOMAIN tree = {} /\ tree = [m \in {} |-> Root]
<1>1. p \in Nat \ {0} /\ Comments(s, 1, p - 1)
  BY DEF ReadAt, OpenAt
<1>2. \A m \in 1..(p - 1) : ~ IsNode(s, m)
  BY <1>1 DEF Comments, IsNode, IsCode
<1>3. DOMAIN tree = {} /\ tree = [m \in DOMAIN tree |-> tree[m]]
  BY <1>2 DEF ReadAt, TreeOf
<1>4. tree = [m \in {} |-> tree[m]]
  BY <1>3
<1>5. [m \in {} |-> tree[m]] = [m \in {} |-> Root]
  OBVIOUS
<1> QED
  BY <1>1, <1>3, <1>4, <1>5

(* A blank line with nothing open: the script has no code.                 *)
LEMMA BlankEnds ==
  ASSUME NEW s, NEW p, NEW F, NEW tree, ReadAt(s, p, 0, F, TRUE, tree), KindAt(s, p) = "blank"
  PROVE  EndAt(s, p, tree)
<1>1. p \in Nat \ {0} /\ Comments(s, 1, p - 1)
  BY NothingYet
<1>2. tree = [m \in {} |-> Root]
  BY NothingYet
<1> QED
  BY <1>1, <1>2 DEF EndAt, BlankEnd

(* A leaf with nothing open is the whole tree.                             *)
LEMMA LeafEnds ==
  ASSUME NEW s, NEW p, NEW F, NEW tree, ReadAt(s, p, 0, F, TRUE, tree), KindAt(s, p) \in Leaves,
         NEW grown, grown = [m \in DOMAIN tree \cup {p} |-> IF m = p THEN Root ELSE tree[m]]
  PROVE  EndAt(s, p, grown)
<1>1. p \in Nat \ {0} /\ Comments(s, 1, p - 1) /\ DOMAIN tree = {}
  BY NothingYet
<1>2. grown = [m \in {p} |-> Root]
  BY <1>1
<1> QED
  BY <1>1, <1>2 DEF EndAt, LeafEnd

(* The brace of the outermost function completes the tree.                 *)
LEMMA CloseEnds ==
  ASSUME NEW s, NEW p, NEW F, NEW tree, ReadAt(s, p, 1, F, FALSE, tree), KindAt(s, p) = "close",
         NEW grown, grown = [m \in DOMAIN tree \cup {F[1]} |-> IF m = F[1] THEN Root ELSE tree[m]]
  PROVE  EndAt(s, p, grown)
<1>1. p \in Nat \ {0} /\ AfterOther(s, p)
  BY DEF ReadAt, ArgumentAt
<1>2. (p + 1) - 1 = p /\ \A k \in 1..p : k \in 1..(p - 1) \/ k = p
  BY <1>1
<1>3. /\ F[1] \in 1..(p - 1) /\ KindAt(s, F[1]) = "open" /\ Balance(s, F[1]) = 1
      /\ \A k \in F[1]..(p - 1) : Balance(s, k) >= 1
      /\ Comments(s, 1, F[1] - 1)
  BY DEF ReadAt, OpenAt
<1>4. Clean(s, p + 1)
  BY <1>1, <1>2 DEF ReadAt, Clean
<1>5. Balance(s, p) = 0
  <2>1. Balance(s, p - 1) = 1
    BY DEF ReadAt, OpenAt
  <2> QED
    BY <1>1, <2>1, BalanceStep
<1>6. IsParent(s, F[1], Root)
  <2>1. F[1] - 1 \in Nat
    BY <1>3
  <2> QED
    BY <1>3, <2>1, BalanceComments DEF IsParent
<1>7. TreeOf(s, p + 1, 0, <<>>, grown)
  <2>1. F[1] \in 1..p /\ IsNode(s, F[1])
    BY <1>1, <1>3 DEF IsNode, IsCode
  <2>2. ASSUME NEW m \in DOMAIN grown
        PROVE  m \in 1..p /\ IsNode(s, m) /\ IsParent(s, m, grown[m])
    <3>1. m = F[1] \/ m \in DOMAIN tree
      OBVIOUS
    <3>2. m # F[1] => /\ grown[m] = tree[m] /\ m \in 1..(p - 1)
                      /\ IsNode(s, m) /\ IsParent(s, m, tree[m])
      BY <3>1 DEF ReadAt, TreeOf
    <3>3. m = F[1] => grown[m] = Root
      OBVIOUS
    <3> QED
      BY <1>1, <1>6, <2>1, <3>1, <3>2, <3>3
  <2>3. ASSUME NEW m \in 1..p, IsNode(s, m)
        PROVE  m \in DOMAIN grown
    <3>1. m # p
      BY <2>3 DEF IsNode
    <3>2. m \in DOMAIN tree \/ \E i \in 1..1 : F[i] = m
      BY <1>2, <2>3, <3>1 DEF ReadAt, TreeOf
    <3> QED
      BY <3>2
  <2> QED
    BY <1>2, <2>2, <2>3 DEF TreeOf
<1>8. CloseEnd(s, p, grown)
  BY <1>3, <1>4, <1>5, <1>7 DEF CloseEnd
<1> QED
  BY <1>1, <1>8 DEF EndAt

-----------------------------------------------------------------------------
(* The operators of the reference in terms of the same counting            *)

(* What read_line reads, on every script: as the reference of the module,  *)
(* but a blank line behind an opening brace does not end the script, and   *)
(* what stands behind the tree must be blank, a comment not excepted.      *)
ReadEnd ==
  LET ends == {n \in 1..(Len(script) + 1) : Line(n) = "blank" /\ ~ Skipped(n)}
              \cup {Len(script) + 1}
  IN CHOOSE n \in ends : \A m \in ends : n <= m

ReadCode == {n \in 1..(ReadEnd - 1) : script[n] \notin {"comment", "blank"}}
ReadFirst == CHOOSE n \in ReadCode : \A m \in ReadCode : n <= m
ReadFinal == CHOOSE n \in ReadCode : \A m \in ReadCode : m <= n

ReadDepth(n) ==
  LET upto(kind) == Cardinality({m \in ReadCode : m <= n /\ script[m] = kind})
  IN upto("open") - upto("close")

ReadsOne ==
  /\ \A n \in ReadCode : script[n] # "unknown"
  /\ IF script[ReadFirst] = "open"
     THEN \A n \in ReadCode : ReadDepth(n) = 0 <=> n = ReadFinal
     ELSE script[ReadFirst] \in Leaves /\ ReadCode = {ReadFirst}
  /\ \A n \in ReadCode :
       script[n] = "close" => Before(n) # 0 /\ script[Before(n)] # "open"

ReadsScript ==
  IF ReadCode = {}
  THEN Line(ReadEnd + 1) = "blank"
  ELSE ReadsOne /\ Line(ReadFinal + 1) = "blank"

ReadEncloses(m, n) ==
  /\ m < n /\ script[m] = "open"
  /\ \A k \in ReadCode : m <= k /\ k < n => ReadDepth(k) >= ReadDepth(m)

ReadTree ==
  [n \in {k \in ReadCode : script[k] # "close"} |->
     LET around == {m \in ReadCode : ReadEncloses(m, n)}
     IN IF around = {} THEN Root ELSE CHOOSE m \in around : \A k \in around : k <= m]

(* A set of numbers that is not empty has a least member.                  *)
LEMMA LeastNumber ==
  ASSUME NEW S, S \subseteq Nat, S # {}
  PROVE  \E i \in S : \A j \in S : i <= j
<1>1. PICK i \in S : \A j \in S : ~ (<<j, i>> \in OpToRel(<, Nat))
  BY NatLessThanWellFounded, WFMin, Zenon
<1>2. \A j \in S : <<j, i>> \in OpToRel(<, Nat) <=> j < i
  BY DEF OpToRel
<1>3. ASSUME NEW j \in S
      PROVE  i <= j
  <2>1. ~ (j < i)
    BY <1>1, <1>2, Zenon
  <2> QED
    BY <2>1
<1> QED
  BY <1>1, <1>3

(* A set of line numbers that is not empty has a greatest member.          *)
LEMMA GreatestNumber ==
  ASSUME NEW n \in Nat, NEW S, S \subseteq 1..n, S # {}
  PROVE  \E i \in S : \A j \in S : j <= i
<1> DEFINE bounds == {k \in Nat : \A j \in S : j <= k}
<1>1. n \in bounds /\ bounds \subseteq Nat
  OBVIOUS
<1>2. PICK i \in bounds : \A k \in bounds : i <= k
  BY <1>1, LeastNumber
<1>3. i \in S
  <2>1. SUFFICES ASSUME i \notin S
                 PROVE  FALSE
    OBVIOUS
  <2>2. \A j \in S : j \in Nat /\ j >= 1 /\ j <= i /\ j # i
    BY <2>1, <1>2
  <2>3. i - 1 \in Nat /\ \A j \in S : j <= i - 1
    <3>1. PICK j \in S : TRUE
      OBVIOUS
    <3>2. i \in Nat
      BY <1>2
    <3> QED
      BY <2>2, <3>1, <3>2
  <2>4. i - 1 \in bounds
    BY <2>3
  <2> QED
    BY <2>4, <1>2
<1> QED
  BY <1>2, <1>3

(* Before is the line that is no comment and has only comments behind it.  *)
LEMMA BeforeIs ==
  ASSUME Len(script) \in Nat, NEW n \in 1..(Len(script) + 1), NEW m \in 1..(n - 1),
         KindAt(script, m) # "comment", Comments(script, m + 1, n - 1)
  PROVE  Before(n) = m
<1> DEFINE code == {k \in 1..(n - 1) : script[k] # "comment"}
<1>1. \A k \in 1..(n - 1) : KindAt(script, k) = script[k]
  BY DEF KindAt
<1>2. m \in code /\ \A k \in code : k <= m
  BY <1>1 DEF Comments
<1>3. code # {} /\ code \subseteq Nat
  BY <1>2
<1> HIDE DEF code
<1>4. \A l \in code : (\A k \in code : k <= l) => l = m
  BY <1>2, <1>3
<1>5. (CHOOSE l \in code : \A k \in code : k <= l) = m
  BY <1>2, <1>4
<1>6. Before(n) = IF code = {} THEN 0 ELSE CHOOSE l \in code : \A k \in code : k <= l
  BY Zenon DEF Before, code
<1> QED
  BY <1>3, <1>5, <1>6

(* What Skipped and the nearest line say is what AfterOpen says.           *)
LEMMA SkippedIs ==
  ASSUME Len(script) \in Nat, NEW n \in 1..(Len(script) + 1)
  PROVE  /\ Skipped(n) <=> AfterOpen(script, n)
         /\ AfterOther(script, n) => Before(n) # 0 /\ script[Before(n)] # "open"
<1>1. ASSUME AfterOpen(script, n)
      PROVE  Skipped(n)
  <2>1. PICK m \in 1..(n - 1) : KindAt(script, m) = "open" /\ Comments(script, m + 1, n - 1)
    BY <1>1 DEF AfterOpen
  <2>2. Before(n) = m
    BY <2>1, BeforeIs
  <2> QED
    BY <2>1, <2>2 DEF Skipped, KindAt
<1>2. ASSUME AfterOther(script, n)
      PROVE  Before(n) # 0 /\ script[Before(n)] # "open"
  <2>1. PICK m \in 1..(n - 1) :
          KindAt(script, m) \notin {"open", "comment"} /\ Comments(script, m + 1, n - 1)
    BY <1>2 DEF AfterOther
  <2>2. Before(n) = m
    BY <2>1, BeforeIs
  <2> QED
    BY <2>1, <2>2 DEF KindAt
<1>3. ASSUME Before(n) # 0
      PROVE  AfterOpen(script, n) \/ AfterOther(script, n)
  <2> DEFINE code == {k \in 1..(n - 1) : script[k] # "comment"}
  <2>1. Before(n) = IF code = {} THEN 0 ELSE CHOOSE l \in code : \A k \in code : k <= l
    BY Zenon DEF Before
  <2>2. code # {} /\ code \subseteq 1..(n - 1) /\ n - 1 \in Nat
    BY <1>3, <2>1
  <2>3. PICK m \in code : \A k \in code : k <= m
    BY <2>2, GreatestNumber
  <2>4. m \in 1..(n - 1) /\ KindAt(script, m) # "comment"
    BY <2>3 DEF KindAt
  <2>5. Comments(script, m + 1, n - 1)
    BY <2>3, <2>4 DEF Comments, KindAt
  <2> QED
    BY <2>4, <2>5 DEF AfterOpen, AfterOther
<1> QED
  BY <1>1, <1>2, <1>3 DEF Skipped

(* Where the script ends: at the first blank line that is not skipped.     *)
LEMMA EndBehind ==
  ASSUME Len(script) \in Nat, NEW p \in 1..(Len(script) + 1),
         \A k \in 1..(p - 1) : KindAt(script, k) = "blank" => AfterOpen(script, k)
  PROVE  /\ ReadEnd \in p..(Len(script) + 1)
         /\ p = Len(script) + 1 \/ (KindAt(script, p) = "blank" /\ ~ AfterOpen(script, p))
              => ReadEnd = p
         /\ KindAt(script, p) # "blank" => ReadEnd > p
<1> DEFINE ends == {n \in 1..(Len(script) + 1) : Line(n) = "blank" /\ ~ Skipped(n)}
                     \cup {Len(script) + 1}
<1>1. ReadEnd = CHOOSE n \in ends : \A m \in ends : n <= m
  BY Zenon DEF ReadEnd
<1>2. ends \subseteq Nat /\ ends # {} /\ ends \subseteq 1..(Len(script) + 1)
  OBVIOUS
<1>3. \A n \in ends : n \in p..(Len(script) + 1)
  <2>1. ASSUME NEW n \in ends, n < p
        PROVE  FALSE
    <3>1. n \in 1..(p - 1) /\ n \in 1..(Len(script) + 1) /\ n # Len(script) + 1
      BY <2>1
    <3>2. KindAt(script, n) = "blank" /\ ~ AfterOpen(script, n)
      BY <3>1, SkippedIs DEF Line, KindAt
    <3> QED
      BY <3>1, <3>2
  <2> QED
    BY <2>1
<1>4. p = Len(script) + 1 \/ (KindAt(script, p) = "blank" /\ ~ AfterOpen(script, p)) => p \in ends
  BY SkippedIs DEF Line, KindAt
<1>5. KindAt(script, p) # "blank" => p \notin ends
  BY DEF Line, KindAt
<1> HIDE DEF ends
<1>6. PICK e \in ends : \A m \in ends : e <= m
  BY <1>2, LeastNumber
<1>7. ReadEnd \in ends /\ \A m \in ends : ReadEnd <= m
  BY <1>1, <1>6, Zenon
<1>8. ReadEnd \in p..(Len(script) + 1)
  BY <1>3, <1>7
<1> QED
  BY <1>4, <1>5, <1>7, <1>8

(* The lines of code in front of the end, and the functions open there.    *)
LEMMA CodeIs ==
  ASSUME Len(script) \in Nat
  PROVE  /\ ReadEnd \in 1..(Len(script) + 1)
         /\ ReadCode = {n \in 1..(ReadEnd - 1) : IsCode(script, n)}
         /\ \A n \in 1..(ReadEnd - 1) : KindAt(script, n) = script[n] /\ ReadDepth(n) = Balance(script, n)
<1>1. ReadEnd \in 1..(Len(script) + 1)
  BY EndBehind, 1 \in 1..(Len(script) + 1)
<1>2. \A n \in 1..(ReadEnd - 1) : KindAt(script, n) = script[n]
  BY <1>1 DEF KindAt
<1>3. ReadCode = {n \in 1..(ReadEnd - 1) : IsCode(script, n)}
  BY <1>2 DEF ReadCode, IsCode
<1>4. ASSUME NEW n \in 1..(ReadEnd - 1)
      PROVE  ReadDepth(n) = Balance(script, n)
  <2>1. \A kind \in {"open", "close"} :
          {m \in ReadCode : m <= n /\ script[m] = kind} = Lines(script, n, kind)
    BY <1>1, <1>2, <1>3 DEF Lines, IsCode
  <2>2. /\ {m \in ReadCode : m <= n /\ script[m] = "open"} = Lines(script, n, "open")
        /\ {m \in ReadCode : m <= n /\ script[m] = "close"} = Lines(script, n, "close")
    BY <2>1
  <2>3. ReadDepth(n) = Cardinality({m \in ReadCode : m <= n /\ script[m] = "open"})
                     - Cardinality({m \in ReadCode : m <= n /\ script[m] = "close"})
    BY Zenon DEF ReadDepth
  <2> QED
    BY <2>2, <2>3, Zenon DEF Balance
<1> QED
  BY <1>1, <1>2, <1>3, <1>4

(* ReadFirst is the line of code that has only comments in front of it.        *)
LEMMA FirstIs ==
  ASSUME Len(script) \in Nat, NEW f \in ReadCode, Comments(script, 1, f - 1)
  PROVE  ReadFirst = f
<1>1. \A n \in ReadCode : n \in Nat /\ n >= 1 /\ KindAt(script, n) # "comment"
  BY CodeIs DEF IsCode
<1>2. \A n \in ReadCode : f <= n
  BY <1>1 DEF Comments
<1>3. \A l \in ReadCode : (\A n \in ReadCode : l <= n) => l = f
  BY <1>1, <1>2
<1> QED
  BY <1>2, <1>3 DEF ReadFirst

(* ReadFinal is the greatest line of code.                                     *)
LEMMA FinalIs ==
  ASSUME Len(script) \in Nat
  PROVE  /\ \A l \in ReadCode : (\A n \in ReadCode : n <= l) => ReadFinal = l
         /\ ReadCode # {} => ReadFinal \in ReadCode /\ \A n \in ReadCode : n <= ReadFinal
<1>1. ReadEnd - 1 \in Nat /\ ReadCode \subseteq 1..(ReadEnd - 1)
  BY CodeIs
<1>2. \A k, l \in ReadCode : (\A n \in ReadCode : n <= l) /\ (\A n \in ReadCode : n <= k) => k = l
  BY <1>1
<1>3. ReadCode # {} => \E l \in ReadCode : \A n \in ReadCode : n <= l
  BY <1>1, GreatestNumber
<1>4. ReadCode # {} => ReadFinal \in ReadCode /\ \A n \in ReadCode : n <= ReadFinal
  BY <1>3, Zenon DEF ReadFinal
<1> QED
  BY <1>2, <1>4

-----------------------------------------------------------------------------
(* Scripts that read_line throws on                                        *)

(* A function that line p does not complete.                               *)
Unfinished(s, p) ==
  /\ KindAt(s, p) = "blank" /\ AfterOther(s, p) /\ Balance(s, p - 1) > 0
  /\ \E f \in 1..(p - 1) : KindAt(s, f) = "open" /\ Comments(s, 1, f - 1)

(* A brace without a function, or without an argument in front of it.      *)
Stray(s, p) == KindAt(s, p) = "close" /\ (Comments(s, 1, p - 1) \/ AfterOpen(s, p))

WrongAt(s, p) ==
  p \in Nat \ {0} /\ Clean(s, p) /\ (KindAt(s, p) = "unknown" \/ Stray(s, p) \/ Unfinished(s, p))

(* None of them is one expression.                                         *)
LEMMA WrongRejected ==
  ASSUME Len(script) \in Nat, NEW p, WrongAt(script, p)
  PROVE  ~ ReadsScript
<1>1. p \in Nat \ {0} /\ Clean(script, p)
  BY DEF WrongAt
<1>2. SUFFICES ASSUME ReadsScript
               PROVE  FALSE
  OBVIOUS
<1>3. ReadCode # {} => ReadsOne
  BY <1>2, Zenon DEF ReadsScript
<1>4. ASSUME KindAt(script, p) \in {"unknown", "close"}
      PROVE  p \in ReadCode /\ KindAt(script, p) = script[p] /\ p \in 1..(Len(script) + 1)
  <2>1. p \in 1..Len(script)
    BY <1>1, <1>4 DEF KindAt
  <2>2. \A k \in 1..(p - 1) : KindAt(script, k) = "blank" => AfterOpen(script, k)
    BY <1>1, <2>1 DEF Clean
  <2>3. p \in 1..(Len(script) + 1) /\ KindAt(script, p) # "blank"
    BY <1>4, <2>1
  <2>4. ReadEnd > p /\ ReadEnd \in p..(Len(script) + 1)
    BY <2>2, <2>3, EndBehind
  <2>5. p \in 1..(ReadEnd - 1) /\ IsCode(script, p)
    BY <1>1, <1>4, <2>4 DEF IsCode
  <2> QED
    BY <2>3, <2>5, CodeIs
<1>5. KindAt(script, p) # "unknown"
  <2>1. SUFFICES ASSUME KindAt(script, p) = "unknown"
                 PROVE  FALSE
    OBVIOUS
  <2>2. p \in ReadCode /\ script[p] = "unknown"
    BY <1>4, <2>1
  <2> QED
    BY <1>3, <2>2 DEF ReadsOne
<1>6. ~ Stray(script, p)
  <2>1. SUFFICES ASSUME Stray(script, p)
                 PROVE  FALSE
    OBVIOUS
  <2>2. p \in ReadCode /\ script[p] = "close" /\ p \in 1..(Len(script) + 1) /\ ReadsOne
    BY <1>3, <1>4, <2>1 DEF Stray
  <2>3. CASE Comments(script, 1, p - 1)
    <3>1. ReadFirst = p
      BY <2>2, <2>3, FirstIs
    <3> QED
      BY <2>2, <3>1 DEF ReadsOne, Leaves
  <2>4. CASE AfterOpen(script, p)
    <3>1. Skipped(p)
      BY <2>2, <2>4, SkippedIs
    <3> QED
      BY <2>2, <3>1 DEF ReadsOne, Skipped
  <2> QED
    BY <2>1, <2>3, <2>4 DEF Stray
<1>7. ~ Unfinished(script, p)
  <2>1. SUFFICES ASSUME Unfinished(script, p)
                 PROVE  FALSE
    OBVIOUS
  <2>2. PICK f \in 1..(p - 1) : KindAt(script, f) = "open" /\ Comments(script, 1, f - 1)
    BY <2>1 DEF Unfinished
  <2>3. KindAt(script, p) = "blank" /\ ~ AfterOpen(script, p) /\ Balance(script, p - 1) > 0
    BY <1>1, <2>1, NotBoth DEF Unfinished
  <2>4. PICK e \in 1..(Len(script) + 1) : e = IF p <= Len(script) THEN p ELSE Len(script) + 1
    BY <1>1
  <2>5. e <= p /\ \A k \in e..(p - 1) : KindAt(script, k) = "blank"
    BY <1>1, <2>4 DEF KindAt
  <2>6. ReadEnd = e
    <3>1. \A k \in 1..(e - 1) : KindAt(script, k) = "blank" => AfterOpen(script, k)
      BY <1>1, <2>4, <2>5 DEF Clean
    <3>2. e = Len(script) + 1 \/ (KindAt(script, e) = "blank" /\ ~ AfterOpen(script, e))
      BY <2>3, <2>4
    <3> QED
      BY <3>1, <3>2, EndBehind
  <2>7. f \in 1..(e - 1) /\ IsCode(script, f)
    BY <2>2, <2>4, <2>5 DEF KindAt, IsCode
  <2>8. ReadCode = {n \in 1..(e - 1) : IsCode(script, n)}
    BY <2>6, CodeIs
  <2>9. f \in ReadCode /\ ReadFirst = f /\ script[f] = "open" /\ ReadsOne
    <3>1. f \in ReadCode /\ KindAt(script, f) = script[f]
      BY <2>6, <2>7, <2>8, CodeIs
    <3> QED
      BY <1>3, <2>2, <3>1, FirstIs
  <2>10. ReadFinal \in 1..(e - 1) /\ ReadFinal \in ReadCode /\ \A n \in ReadCode : n <= ReadFinal
    BY <2>8, <2>9, FinalIs
  <2>11. ReadDepth(ReadFinal) = 0
    BY <2>9, <2>10 DEF ReadsOne
  <2>12. ReadDepth(ReadFinal) = Balance(script, ReadFinal)
    BY <2>6, <2>10, CodeIs
  <2>13. Balance(script, p - 1) = Balance(script, ReadFinal)
    <3>1. p - 1 \in Nat /\ ReadFinal \in Nat /\ ReadFinal <= p - 1
      BY <1>1, <2>5, <2>10
    <3>2. ASSUME NEW k \in (ReadFinal + 1)..(p - 1)
          PROVE  ~ IsCode(script, k)
      <4>1. k \in e..(p - 1) \/ k \in 1..(e - 1)
        BY <1>1, <2>4, <2>10
      <4>2. k \notin ReadCode
        BY <2>10, <3>1
      <4> QED
        BY <2>5, <2>8, <4>1, <4>2 DEF IsCode
    <3> QED
      BY <3>1, <3>2, BalanceSame
  <2> QED
    BY <2>3, <2>11, <2>12, <2>13
<1> QED
  BY <1>5, <1>6, <1>7 DEF WrongAt

-----------------------------------------------------------------------------
(* Scripts that read_line returns from                                     *)

(* ReadEncloses, which looks at lines of code only, in terms of all lines.     *)
LEMMA EnclosesIs ==
  ASSUME Len(script) \in Nat, NEW m \in ReadCode, NEW n \in ReadCode
  PROVE  ReadEncloses(m, n) <=>
           /\ m < n /\ KindAt(script, m) = "open"
           /\ \A k \in m..(n - 1) : Balance(script, k) >= Balance(script, m)
<1>1. /\ m \in 1..(ReadEnd - 1) /\ n \in 1..(ReadEnd - 1) /\ ReadEnd \in Nat
      /\ KindAt(script, m) = script[m] /\ ReadCode = {k \in 1..(ReadEnd - 1) : IsCode(script, k)}
  BY CodeIs
<1>2. \A k \in 1..(ReadEnd - 1) : ReadDepth(k) = Balance(script, k)
  BY CodeIs
<1>3. ReadEncloses(m, n) <=>
        /\ m < n /\ KindAt(script, m) = "open"
        /\ \A k \in ReadCode : m <= k /\ k < n => Balance(script, k) >= Balance(script, m)
  BY <1>1, <1>2 DEF ReadEncloses
<1>4. ASSUME m < n, NEW j \in m..(n - 1), Balance(script, j) < Balance(script, m)
      PROVE  \E k \in ReadCode : m <= k /\ k < n /\ Balance(script, k) < Balance(script, m)
  <2> DEFINE low == {k \in m..(n - 1) : Balance(script, k) < Balance(script, m)}
  <2>1. low \subseteq Nat /\ low # {}
    BY <1>1, <1>4
  <2>2. PICK k \in low : \A i \in low : k <= i
    BY <2>1, LeastNumber
  <2>3. /\ k \in m..(n - 1) /\ k \in Nat /\ k >= 1 /\ Balance(script, k) < Balance(script, m)
        /\ Balance(script, k) \in Int /\ Balance(script, m) \in Int /\ Balance(script, k - 1) \in Int
    BY <1>1, <2>2, BalanceStep
  <2>4. k # m
    BY <2>3
  <2>5. k - 1 \in m..(n - 1) /\ k - 1 \notin low
    BY <1>1, <2>2, <2>3, <2>4
  <2>6. Balance(script, k) < Balance(script, k - 1)
    BY <2>3, <2>5
  <2>7. KindAt(script, k) = "close"
    BY <2>3, <2>6, BalanceStep
  <2>8. k \in ReadCode
    BY <1>1, <2>3, <2>7 DEF IsCode
  <2> QED
    BY <1>1, <2>3, <2>8
<1>5. \A k \in 1..(ReadEnd - 1) : Balance(script, k) \in Int
  BY <1>1, BalanceStep
<1>6. \A k \in m..(n - 1) : k \in 1..(ReadEnd - 1)
  BY <1>1
<1>7. \A k \in ReadCode : m <= k /\ k < n => k \in m..(n - 1)
  BY <1>1
<1> QED
  BY <1>1, <1>3, <1>4, <1>5, <1>6, <1>7

(* The parent of a node in the reference tree.                             *)
ParentOf(n) ==
  LET around == {m \in ReadCode : ReadEncloses(m, n)}
  IN IF around = {} THEN Root ELSE CHOOSE m \in around : \A k \in around : k <= m

(* The innermost of the functions that enclose a node is its parent.       *)
LEMMA ParentIs ==
  ASSUME Len(script) \in Nat, NEW n \in ReadCode, NEW q, IsParent(script, n, q),
         \A k \in 1..(n - 1) : Balance(script, k) >= 0
  PROVE  ParentOf(n) = q
<1> DEFINE around == {m \in ReadCode : ReadEncloses(m, n)}
<1>1. /\ n \in 1..(ReadEnd - 1) /\ ReadEnd \in Nat
      /\ ReadCode = {k \in 1..(ReadEnd - 1) : IsCode(script, k)}
  BY CodeIs
<1>2. ParentOf(n) = IF around = {} THEN Root ELSE CHOOSE m \in around : \A k \in around : k <= m
  BY Zenon DEF ParentOf
<1>3. ASSUME NEW m \in around
      PROVE  /\ m \in 1..(n - 1) /\ KindAt(script, m) = "open"
             /\ \A k \in m..(n - 1) : Balance(script, k) >= Balance(script, m)
             /\ Balance(script, n - 1) >= Balance(script, m)
             /\ Balance(script, m) = Balance(script, m - 1) + 1
             /\ Balance(script, m - 1) \in Int
  <2>1. /\ m < n /\ KindAt(script, m) = "open" /\ m \in Nat /\ m >= 1
        /\ \A k \in m..(n - 1) : Balance(script, k) >= Balance(script, m)
    BY <1>1, EnclosesIs
  <2>2. m \in 1..(n - 1) /\ n - 1 \in m..(n - 1)
    BY <1>1, <2>1
  <2>3. Balance(script, m) = Balance(script, m - 1) + 1 /\ Balance(script, m - 1) \in Int
    BY <2>1, BalanceStep
  <2> QED
    BY <2>1, <2>2, <2>3
<1>4. CASE q = Root /\ Balance(script, n - 1) = 0
  <2>1. ASSUME NEW m \in around
        PROVE  FALSE
    <3>1. Balance(script, m - 1) >= 0
      <4>1. CASE m = 1
        <5>1. Balance(script, 0) = 0
          BY BalanceComments DEF Comments
        <5> QED
          BY <4>1, <5>1
      <4>2. CASE m # 1
        <5>1. m - 1 \in 1..(n - 1)
          BY <1>1, <1>3, <2>1, <4>2
        <5> QED
          BY <5>1
      <4> QED
        BY <4>1, <4>2
    <3> QED
      BY <1>3, <1>4, <2>1, <3>1
  <2>2. around = {}
    BY <2>1
  <2> QED
    BY <1>2, <1>4, <2>2, Zenon
<1>5. CASE Around(script, n, q)
  <2>1. /\ q \in 1..(n - 1) /\ KindAt(script, q) = "open"
        /\ Balance(script, q) = Balance(script, n - 1)
        /\ \A k \in q..(n - 1) : Balance(script, k) >= Balance(script, q)
    BY <1>5 DEF Around
  <2>2. q \in around
    <3>1. q \in ReadCode /\ q < n
      BY <1>1, <2>1 DEF IsCode
    <3> QED
      BY <2>1, <3>1, EnclosesIs
  <2>3. ASSUME NEW m \in around
        PROVE  m <= q
    <3>1. SUFFICES ASSUME q < m
                   PROVE  FALSE
      BY <1>3, <2>1
    <3>2. m - 1 \in q..(n - 1)
      BY <1>1, <1>3, <2>1, <3>1
    <3>3. Balance(script, m - 1) >= Balance(script, q)
      BY <2>1, <3>2
    <3>4. Balance(script, q) \in Int
      BY <2>1, BalanceStep
    <3> QED
      BY <1>3, <2>1, <3>3, <3>4
  <2>4. around \subseteq Nat /\ around # {}
    BY <1>1, <2>2
  <2> HIDE DEF around
  <2>5. \A l \in around : (\A k \in around : k <= l) => l = q
    BY <2>2, <2>3, <2>4
  <2>6. (CHOOSE m \in around : \A k \in around : k <= m) = q
    BY <2>2, <2>3, <2>5
  <2> QED
    BY <1>2, <2>4, <2>6
<1> QED
  BY <1>4, <1>5 DEF IsParent

(* If nothing but a blank line is behind the line at which read_line       *)
(* returned, the script ends there.                                        *)
LEMMA EndsThere ==
  ASSUME Len(script) \in Nat, NEW p \in 1..Len(script),
         KindAt(script, p) \notin {"open", "comment", "blank"}, KindAt(script, p + 1) = "blank",
         \A k \in 1..(p - 1) : KindAt(script, k) = "blank" => AfterOpen(script, k)
  PROVE  ReadEnd = p + 1 /\ p \in ReadCode /\ ReadFinal = p
<1>1. p + 1 \in 1..(Len(script) + 1) /\ (p + 1) - 1 = p /\ p + 1 \in Nat
  OBVIOUS
<1>2. AfterOther(script, p + 1)
  <2>1. p \in 1..p /\ Comments(script, p + 1, p)
    BY DEF Comments
  <2> QED
    BY <1>1, <2>1 DEF AfterOther
<1>3. ~ AfterOpen(script, p + 1)
  BY <1>1, <1>2, NotBoth
<1>4. \A k \in 1..p : KindAt(script, k) = "blank" => AfterOpen(script, k)
  <2>1. \A k \in 1..p : k = p \/ k \in 1..(p - 1)
    OBVIOUS
  <2> QED
    BY <2>1
<1>5. ReadEnd = p + 1
  BY <1>1, <1>3, <1>4, EndBehind
<1>6. ReadCode = {n \in 1..p : IsCode(script, n)}
  BY <1>1, <1>5, CodeIs
<1>7. p \in ReadCode /\ \A n \in ReadCode : n <= p
  BY <1>6 DEF IsCode
<1> QED
  BY <1>5, <1>7, FinalIs

(* A script without code: an empty tree, if another blank line follows.    *)
LEMMA BlankExact ==
  ASSUME Len(script) \in Nat, NEW p \in Nat \ {0}, NEW tree, BlankEnd(script, p, tree)
  PROVE  /\ ReadsScript <=> KindAt(script, p + 1) = "blank"
         /\ tree = ReadTree
<1>1. /\ Comments(script, 1, p - 1) /\ KindAt(script, p) = "blank"
      /\ tree = [m \in {} |-> Root]
  BY DEF BlankEnd
<1>2. p \in 1..(Len(script) + 1)
  <2>1. SUFFICES ASSUME p > Len(script) + 1
                 PROVE  FALSE
    OBVIOUS
  <2>2. Len(script) + 1 \in 1..(p - 1) /\ KindAt(script, Len(script) + 1) = "blank"
    BY <2>1 DEF KindAt
  <2> QED
    BY <1>1, <2>2 DEF Comments
<1>3. ReadEnd = p
  <2>1. ~ AfterOpen(script, p)
    BY <1>1, NotBoth
  <2>2. \A k \in 1..(p - 1) : KindAt(script, k) = "blank" => AfterOpen(script, k)
    BY <1>1 DEF Comments
  <2> QED
    BY <1>1, <1>2, <2>1, <2>2, EndBehind
<1>4. ReadCode = {}
  BY <1>1, <1>3, CodeIs DEF Comments, IsCode
<1>5. ReadsScript <=> KindAt(script, p + 1) = "blank"
  BY <1>3, <1>4, Zenon DEF ReadsScript, Line, KindAt
<1>6. tree = ReadTree
  <2>1. {k \in ReadCode : script[k] # "close"} = {}
    BY <1>4
  <2>2. ReadTree = [n \in {k \in ReadCode : script[k] # "close"} |-> ParentOf(n)]
    BY Zenon DEF ReadTree, ParentOf
  <2> QED
    BY <1>1, <2>1, <2>2
<1> QED
  BY <1>5, <1>6

(* A script that is a leaf, if nothing follows.                            *)
LEMMA LeafExact ==
  ASSUME Len(script) \in Nat, NEW p \in Nat \ {0}, NEW tree, LeafEnd(script, p, tree)
  PROVE  /\ ReadsScript <=> KindAt(script, p + 1) = "blank"
         /\ ReadsScript => tree = ReadTree
<1>1. /\ Comments(script, 1, p - 1) /\ KindAt(script, p) \in Leaves
      /\ tree = [m \in {p} |-> Root]
      /\ KindAt(script, p) \notin {"open", "comment", "blank", "close", "unknown"}
  BY DEF LeafEnd, Leaves
<1>2. p \in 1..Len(script) /\ p \in 1..(Len(script) + 1) /\ KindAt(script, p) = script[p]
  BY <1>1 DEF KindAt
<1>3. \A k \in 1..(p - 1) : KindAt(script, k) = "blank" => AfterOpen(script, k)
  BY <1>1 DEF Comments
<1>4. p \in ReadCode /\ ReadFirst = p
  <2>1. ReadEnd > p /\ ReadEnd \in p..(Len(script) + 1)
    BY <1>1, <1>2, <1>3, EndBehind
  <2>2. p \in 1..(ReadEnd - 1) /\ IsCode(script, p)
    BY <1>1, <1>2, <2>1 DEF IsCode
  <2>3. p \in ReadCode
    BY <2>2, CodeIs
  <2> QED
    BY <1>1, <2>3, FirstIs
<1>5. ASSUME ReadsScript
      PROVE  KindAt(script, p + 1) = "blank"
  <2>1. ReadsOne /\ Line(ReadFinal + 1) = "blank"
    BY <1>4, <1>5, Zenon DEF ReadsScript
  <2>2. ReadCode = {p}
    BY <1>1, <1>2, <1>4, <2>1 DEF ReadsOne
  <2>3. ReadFinal = p
    BY <2>2, <1>2, FinalIs
  <2> QED
    BY <2>1, <2>3 DEF Line, KindAt
<1>6. ASSUME KindAt(script, p + 1) = "blank"
      PROVE  ReadsScript /\ tree = ReadTree
  <2>1. ReadEnd = p + 1 /\ ReadFinal = p
    BY <1>1, <1>2, <1>3, <1>6, EndsThere
  <2>2. ReadCode = {p}
    <3>1. ASSUME NEW n \in ReadCode
          PROVE  n = p
      <4>1. n \in 1..p /\ IsCode(script, n)
        BY <1>2, <2>1, CodeIs
      <4>2. n \notin 1..(p - 1)
        BY <1>1, <4>1 DEF Comments, IsCode
      <4> QED
        BY <1>2, <4>1, <4>2
    <3> QED
      BY <1>4, <3>1
  <2>3. ReadsOne
    BY <1>1, <1>2, <1>4, <2>2 DEF ReadsOne
  <2>4. Line(ReadFinal + 1) = "blank"
    BY <1>6, <2>1 DEF Line, KindAt
  <2>5. ReadsScript
    BY <1>4, <2>3, <2>4, Zenon DEF ReadsScript
  <2>6. {k \in ReadCode : script[k] # "close"} = {p}
    BY <1>1, <1>2, <2>2
  <2>7. ParentOf(p) = Root
    <3>1. {m \in ReadCode : ReadEncloses(m, p)} = {}
      BY <1>2, <2>2 DEF ReadEncloses
    <3> QED
      BY <3>1, Zenon DEF ParentOf
  <2>8. ReadTree = [n \in {k \in ReadCode : script[k] # "close"} |-> ParentOf(n)]
    BY Zenon DEF ReadTree, ParentOf
  <2> QED
    BY <1>1, <2>5, <2>6, <2>7, <2>8
<1> QED
  BY <1>5, <1>6

(* A script that is a function, if nothing follows its last brace.         *)
LEMMA CloseExact ==
  ASSUME Len(script) \in Nat, NEW p \in Nat \ {0}, NEW tree, CloseEnd(script, p, tree)
  PROVE  /\ ReadsScript <=> KindAt(script, p + 1) = "blank"
         /\ ReadsScript => tree = ReadTree
<1>1. /\ Clean(script, p + 1) /\ TreeOf(script, p + 1, 0, <<>>, tree)
      /\ KindAt(script, p) = "close" /\ Balance(script, p) = 0
      /\ (p + 1) - 1 = p
  BY DEF CloseEnd
<1>2. PICK f \in 1..(p - 1) : /\ KindAt(script, f) = "open" /\ Comments(script, 1, f - 1)
                              /\ \A k \in f..(p - 1) : Balance(script, k) >= 1
  BY DEF CloseEnd
<1>3. p \in 1..Len(script) /\ p \in 1..(Len(script) + 1) /\ KindAt(script, p) = script[p]
  BY <1>1 DEF KindAt
<1>4. \A k \in 1..(p - 1) : KindAt(script, k) = "blank" => AfterOpen(script, k)
  <2>1. \A k \in 1..(p - 1) : k \in 1..p /\ k <= Len(script)
    BY <1>3
  <2> QED
    BY <1>1, <2>1 DEF Clean
<1>5. ReadEnd > p /\ ReadEnd \in p..(Len(script) + 1)
  BY <1>1, <1>3, <1>4, EndBehind
<1>6. p \in ReadCode /\ f \in ReadCode /\ ReadFirst = f /\ script[f] = "open"
  <2>1. p \in 1..(ReadEnd - 1) /\ IsCode(script, p) /\ f \in 1..(ReadEnd - 1) /\ IsCode(script, f)
    BY <1>1, <1>2, <1>5 DEF IsCode
  <2>2. p \in ReadCode /\ f \in ReadCode /\ KindAt(script, f) = script[f]
    BY <2>1, CodeIs
  <2> QED
    BY <1>2, <2>2, FirstIs
<1>7. ReadDepth(p) = 0
  <2>1. p \in 1..(ReadEnd - 1)
    BY <1>3, <1>5
  <2> QED
    BY <1>1, <2>1, CodeIs
<1>8. ASSUME ReadsScript
      PROVE  KindAt(script, p + 1) = "blank"
  <2>1. ReadsOne /\ Line(ReadFinal + 1) = "blank"
    BY <1>6, <1>8, Zenon DEF ReadsScript
  <2>2. ReadFinal = p
    BY <1>6, <1>7, <2>1 DEF ReadsOne
  <2> QED
    BY <2>1, <2>2 DEF Line, KindAt
<1>9. ASSUME KindAt(script, p + 1) = "blank"
      PROVE  ReadsScript /\ tree = ReadTree
  <2>1. ReadEnd = p + 1 /\ ReadFinal = p
    BY <1>1, <1>3, <1>4, <1>9, EndsThere
  <2>2. /\ ReadCode = {n \in 1..p : IsCode(script, n)}
        /\ \A n \in 1..p : KindAt(script, n) = script[n] /\ ReadDepth(n) = Balance(script, n)
    BY <1>1, <2>1, CodeIs
  <2>3. ASSUME NEW n \in ReadCode
        PROVE  ReadDepth(n) = 0 <=> n = ReadFinal
    <3>1. n \in 1..p /\ IsCode(script, n) /\ ReadDepth(n) = Balance(script, n)
      BY <2>2
    <3>2. n \notin 1..(f - 1)
      BY <1>2, <3>1 DEF Comments, IsCode
    <3>3. n = p \/ n \in f..(p - 1)
      BY <1>2, <1>3, <3>1, <3>2
    <3>4. n # p => Balance(script, n) >= 1 /\ Balance(script, n) # 0
      BY <1>2, <3>1, <3>3, BalanceStep
    <3> QED
      BY <1>7, <2>1, <3>1, <3>4
  <2>4. ASSUME NEW n \in ReadCode
        PROVE  /\ script[n] # "unknown"
               /\ script[n] = "close" => Before(n) # 0 /\ script[Before(n)] # "open"
    <3>1. n \in 1..p /\ KindAt(script, n) = script[n] /\ n \in 1..(Len(script) + 1)
      BY <1>3, <2>2
    <3>2. KindAt(script, n) # "unknown" /\ (KindAt(script, n) = "close" => AfterOther(script, n))
      BY <1>1, <3>1 DEF Clean
    <3> QED
      BY <3>1, <3>2, SkippedIs
  <2>5. ReadsOne
    BY <1>6, <2>3, <2>4, Zenon DEF ReadsOne
  <2>6. Line(ReadFinal + 1) = "blank"
    BY <1>9, <2>1 DEF Line, KindAt
  <2>7. ReadsScript
    BY <1>6, <2>5, <2>6, Zenon DEF ReadsScript
  <2>8. DOMAIN tree = {k \in ReadCode : script[k] # "close"}
    <3>1. \A m \in DOMAIN tree : m \in 1..p /\ IsNode(script, m)
      BY <1>1 DEF TreeOf
    <3>2. \A m \in 1..p : IsNode(script, m) => m \in DOMAIN tree
      BY <1>1 DEF TreeOf
    <3>3. \A m \in 1..p : IsNode(script, m) <=> m \in ReadCode /\ script[m] # "close"
      BY <2>2 DEF IsNode
    <3>4. ReadCode \subseteq 1..p
      BY <2>2
    <3> QED
      BY <3>1, <3>2, <3>3, <3>4
  <2>9. ASSUME NEW n \in DOMAIN tree
        PROVE  tree[n] = ParentOf(n)
    <3>1. n \in 1..p /\ n \in ReadCode /\ IsParent(script, n, tree[n])
      BY <1>1, <2>8 DEF TreeOf
    <3>2. ASSUME NEW k \in 1..(n - 1)
          PROVE  Balance(script, k) >= 0
      <4>1. CASE k < f
        <5>1. k \in Nat /\ Comments(script, 1, k)
          BY <1>2, <4>1 DEF Comments
        <5>2. Balance(script, k) = 0
          BY <5>1, BalanceComments
        <5> QED
          BY <5>2
      <4>2. CASE ~ (k < f)
        <5>1. k \in f..(p - 1)
          BY <1>2, <3>1, <4>2
        <5>2. Balance(script, k) >= 1 /\ Balance(script, k) \in Int
          BY <1>2, <5>1, BalanceStep
        <5> QED
          BY <5>2
      <4> QED
        BY <4>1, <4>2
    <3> QED
      BY <3>1, <3>2, ParentIs
  <2>10. ReadTree = [n \in {k \in ReadCode : script[k] # "close"} |-> ParentOf(n)]
    BY Zenon DEF ReadTree, ParentOf
  <2>11. tree = [m \in DOMAIN tree |-> tree[m]]
    BY <1>1 DEF TreeOf
  <2> QED
    BY <2>7, <2>8, <2>9, <2>10, <2>11
<1> QED
  BY <1>8, <1>9

(* get_executable_tree accepts what read_line returns from exactly if      *)
(* nothing is left, and then the tree is the one the braces give.          *)
LEMMA EndExact ==
  ASSUME Len(script) \in Nat, NEW p, NEW tree, EndAt(script, p, tree)
  PROVE  /\ ReadsScript <=> KindAt(script, p + 1) = "blank"
         /\ ReadsScript => tree = ReadTree
<1>1. p \in Nat \ {0}
  BY DEF EndAt
<1>2. CASE BlankEnd(script, p, tree)
  BY <1>1, <1>2, BlankExact
<1>3. CASE LeafEnd(script, p, tree)
  BY <1>1, <1>3, LeafExact
<1>4. CASE CloseEnd(script, p, tree)
  BY <1>1, <1>4, CloseExact
<1> QED
  BY <1>2, <1>3, <1>4 DEF EndAt

-----------------------------------------------------------------------------
(* read_line reads as the reference does                                   *)

Functions == [i \in 1..Len(stack) |-> stack[i].aux]

(* CompilesExactly speaks of the end only. While lines are read, the stack *)
(* holds the functions that are open, and what was read is neither wrong   *)
(* nor behind the end; an error is one of the reference's errors.          *)
ReadInv ==
  /\ stack # <<>> => stack[1].node = Root
  /\ Reading /\ Top.aux = Null =>
       ReadAt(script, Top.next, Len(stack) - 1, Functions, TRUE, parent)
  /\ Reading /\ Top.aux # Null =>
       ReadAt(script, Top.next, Len(stack), Functions, FALSE, parent)
  /\ status = "checking" => EndAt(script, rest - 1, parent)
  /\ status = "done" => EndAt(script, rest - 1, parent) /\ KindAt(script, rest) = "blank"
  /\ status = "error" =>
       \/ EndAt(script, rest - 1, parent) /\ KindAt(script, rest) # "blank"
       \/ \E p \in Nat : WrongAt(script, p)

(* The innermost activation; its node is the function its caller reads.    *)
LEMMA Innermost ==
  ASSUME StackInv, ReadInv, Reading, NEW n, n = Len(stack)
  PROVE  /\ n \in Nat /\ n >= 1 /\ Top.next \in Nat \ {0} /\ Top.aux \in Nat
         /\ \A i \in 1..n : Functions[i] = stack[i].aux
         /\ Top = stack[n] /\ Functions[n] = Top.aux
         /\ Here = KindAt(script, Top.next) /\ stack # <<>>
         /\ n = 1 => Top.node = Root
         /\ n > 1 => Top.node = Functions[n - 1]
<1>1. n \in Nat /\ n >= 1 /\ n \in 1..n /\ Top = stack[n] /\ Top \in Activations /\ stack # <<>>
  BY DEF StackInv, Reading, Top
<1>2. ActivationOK(Top)
  BY <1>1 DEF StackInv
<1>3. Top.next \in Nat \ {0} /\ Top.aux \in Nat
  BY <1>1, <1>2 DEF ActivationOK, Activations, StackInv
<1>4. \A i \in 1..n : Functions[i] = stack[i].aux
  BY DEF Functions
<1>5. Here = KindAt(script, Top.next)
  BY DEF Here, Line, KindAt
<1>6. n = 1 => Top.node = Root
  BY <1>1 DEF ReadInv
<1>7. n > 1 => Top.node = Functions[n - 1]
  <2>1. n > 1 => n \in 2..n /\ n - 1 \in 1..n
    BY <1>1
  <2> QED
    BY <1>1, <1>4, <2>1 DEF StackInv
<1> QED
  BY <1>1, <1>3, <1>4, <1>5, <1>6, <1>7

(* A step that returns to a caller: what read_line has found out.          *)
LEMMA BackInCaller ==
  ASSUME StackInv, ReadInv, Reading, Return, script' = script, NEW n, n = Len(stack), n > 1,
         \A G : (\A i \in 1..(n - 1) : G[i] = Functions[i]) =>
                  ReadAt(script, Top.next + 1, n - 1, G, FALSE, parent')
  PROVE  ReadInv'
<1>1. n \in Nat /\ \A i \in 1..n : Functions[i] = stack[i].aux /\ stack # <<>>
  BY Innermost
<1>2. /\ stack' # <<>> /\ Len(stack') = n - 1
      /\ \A i \in 1..(n - 1) : /\ stack'[i].node = stack[i].node
                               /\ stack'[i].aux = stack[i].aux
                               /\ stack'[i].next = IF i = n - 1 THEN Back ELSE stack[i].next
      /\ rest' = rest /\ status' = status
  BY ReturnShape
<1>3. /\ 1 \in 1..(n - 1) /\ n - 1 \in 1..(n - 1) /\ 1..(n - 1) \subseteq 1..n
      /\ n \in 2..n
  BY <1>1
<1>4. Functions' = [i \in 1..(n - 1) |-> stack'[i].aux]
  BY <1>2 DEF Functions
<1>5. \A i \in 1..(n - 1) : Functions'[i] = Functions[i]
  BY <1>1, <1>2, <1>3, <1>4
<1>6. Top'.next = Top.next + 1 /\ Top'.aux = stack[n - 1].aux
  BY <1>2, <1>3 DEF Top, Back
<1>7. stack[n - 1].aux # Null
  BY <1>3 DEF StackInv
<1>8. ReadAt(script, Top.next + 1, n - 1, Functions', FALSE, parent')
  BY <1>5
<1>9. ReadAt(script', Top'.next, Len(stack'), Functions', FALSE, parent')
  BY <1>2, <1>6, <1>8
<1>10. stack'[1].node = Root /\ Top'.aux # Null /\ status' = "reading"
  BY <1>1, <1>2, <1>3, <1>6, <1>7 DEF ReadInv, Reading
<1> QED
  BY <1>9, <1>10 DEF ReadInv, Reading

(* The outermost read_line returns.                                        *)
LEMMA BackOutside ==
  ASSUME StackInv, ReadInv, Reading, Return, script' = script, Len(stack) = 1,
         EndAt(script, Top.next, parent')
  PROVE  ReadInv'
<1>1. stack' = <<>> /\ rest' = Back /\ status' = "checking"
  BY ReturnShape
<1>2. rest' - 1 = Top.next
  BY <1>1, Innermost DEF Back
<1>3. EndAt(script', rest' - 1, parent')
  BY <1>2
<1> QED
  BY <1>1, <1>3 DEF ReadInv, Reading

(* read_line throws.                                                       *)
LEMMA ThrowReads ==
  ASSUME StackInv, ReadInv, Reading, Throw, script' = script, WrongAt(script, Top.next)
  PROVE  ReadInv'
<1>1. status' = "error" /\ stack' = stack
  BY DEF Throw
<1>2. WrongAt(script', Top.next) /\ Top.next \in Nat
  BY Innermost
<1>3. \E p \in Nat : WrongAt(script', p)
  BY <1>2
<1> QED
  BY <1>1, <1>3 DEF ReadInv, Reading

(* A call keeps the functions of the stack; the new activation reads line  *)
(* x for the function a in the caller's hand.                              *)
LEMMA CallReads ==
  ASSUME StackInv, ReadInv, Reading, UNCHANGED <<script, parent, rest, status>>,
         NEW a \in Nat, NEW x \in Nat, NEW n, n = Len(stack),
         stack' = Append([stack EXCEPT ![Len(stack)] = Holding(a)], Activation(a, x)),
         \A G : (\A i \in 1..(n - 1) : G[i] = Functions[i]) /\ G[n] = a =>
                  ReadAt(script, x, n, G, TRUE, parent)
  PROVE  ReadInv'
<1>1. n \in Nat /\ n >= 1 /\ (\A i \in 1..n : Functions[i] = stack[i].aux) /\ stack # <<>>
  BY Innermost
<1>2. /\ stack' # <<>> /\ Len(stack') = n + 1 /\ stack'[n + 1] = Activation(a, x)
      /\ \A i \in 1..n : stack'[i] = IF i = n THEN Holding(a) ELSE stack[i]
  BY CallShape
<1>3. /\ Holding(a).aux = a /\ Holding(a).node = stack[n].node
      /\ Activation(a, x).aux = Null /\ Activation(a, x).next = x
  <2>1. Top \in Activations /\ Top = stack[n]
    BY <1>1 DEF StackInv, Top
  <2> QED
    BY <2>1 DEF Holding, Activation, Activations
<1>4. Functions' = [i \in 1..(n + 1) |-> stack'[i].aux]
  BY <1>2 DEF Functions
<1>5. (\A i \in 1..(n - 1) : Functions'[i] = Functions[i]) /\ Functions'[n] = a
  <2>1. \A i \in 1..(n - 1) : i \in 1..n /\ i \in 1..(n + 1) /\ i # n
    BY <1>1
  <2>2. n \in 1..n /\ n \in 1..(n + 1)
    BY <1>1
  <2> QED
    BY <1>1, <1>2, <1>3, <1>4, <2>1, <2>2
<1>6. Top'.next = x /\ Top'.aux = Null
  BY <1>2, <1>3 DEF Top
<1>7. ReadAt(script, x, n, Functions', TRUE, parent)
  BY <1>5
<1>8. Len(stack') - 1 = n
  BY <1>1, <1>2
<1>9. ReadAt(script', Top'.next, Len(stack') - 1, Functions', TRUE, parent')
  BY <1>6, <1>7, <1>8
<1>10. stack'[1].node = Root
  <2>1. 1 \in 1..n /\ stack[1].node = Root
    BY <1>1 DEF ReadInv
  <2> QED
    BY <1>2, <1>3, <2>1
<1>11. status' = "reading"
  BY DEF Reading
<1> QED
  BY <1>6, <1>9, <1>10, <1>11 DEF ReadInv, Reading

(* Every step of read_line and of get_executable_tree does what the        *)
(* reference says.                                                         *)
LEMMA NextRead == StackInv /\ ReadInv /\ [Next]_vars => ReadInv'
<1> SUFFICES ASSUME StackInv, ReadInv, [Next]_vars
             PROVE  ReadInv'
  OBVIOUS
<1> DEFINE n == Len(stack)
           p == Top.next
<1>1. ASSUME Reading
      PROVE  /\ n \in Nat /\ n >= 1 /\ p \in Nat \ {0} /\ Top.aux \in Nat
             /\ \A i \in 1..n : Functions[i] = stack[i].aux
             /\ Top = stack[n] /\ Functions[n] = Top.aux
             /\ Here = KindAt(script, p) /\ stack # <<>>
             /\ n = 1 => Top.node = Root
             /\ n > 1 => Top.node = Functions[n - 1]
  <2>1. n = Len(stack)
    OBVIOUS
  <2> HIDE DEF n
  <2> QED
    BY <1>1, <2>1, Innermost
<1>2. ASSUME Reading, Top.aux = Null
      PROVE  ReadAt(script, p, n - 1, Functions, TRUE, parent)
  BY <1>2 DEF ReadInv
<1>3. ASSUME Reading, Top.aux # Null
      PROVE  ReadAt(script, p, n, Functions, FALSE, parent)
  BY <1>3 DEF ReadInv
<1>4. n = Len(stack)
  OBVIOUS
<1> HIDE DEF n
<1>5. ASSUME Reading
      PROVE  /\ n = 1 \/ (n > 1 /\ n - 1 > 0)
             /\ n > 0 /\ n - 1 \in Nat /\ 1 \in 1..n /\ 1..(n - 1) \subseteq 1..n
             /\ n - 1 = 0 \/ n - 1 > 0
  <2>1. n \in Nat /\ n >= 1
    BY <1>1, <1>5
  <2> QED
    BY <2>1
<1>6. CASE BlankLine
  <2>1. Reading /\ Top.aux = Null /\ Return /\ script' = script /\ parent' = parent
        /\ KindAt(script, p) = "blank"
    BY <1>1, <1>6 DEF BlankLine
  <2>2. CASE n = 1
    <3>1. ReadAt(script, p, 0, Functions, TRUE, parent)
      <4>1. n - 1 = 0
        BY <2>2
      <4>2. ReadAt(script, p, n - 1, Functions, TRUE, parent)
        BY <1>2, <2>1
      <4> QED
        BY <4>1, <4>2, Zenon
    <3>2. EndAt(script, p, parent)
      BY <2>1, <3>1, BlankEnds
    <3> QED
      BY <1>4, <2>1, <2>2, <3>2, BackOutside
  <2>3. CASE n > 1 /\ n - 1 > 0
    <3>1. ASSUME NEW G, \A i \in 1..(n - 1) : G[i] = Functions[i]
          PROVE  ReadAt(script, p + 1, n - 1, G, FALSE, parent)
      BY <1>2, <2>1, <2>3, <3>1, BlankRead
    <3> QED
      BY <1>4, <2>1, <2>3, <3>1, BackInCaller
  <2> QED
    BY <1>5, <2>1, <2>2, <2>3
<1>7. CASE UnfinishedFunction
  <2>1. Reading /\ Top.aux # Null /\ Throw /\ script' = script /\ KindAt(script, p) = "blank"
    BY <1>1, <1>7 DEF UnfinishedFunction
  <2>2. ReadAt(script, p, n, Functions, FALSE, parent)
    BY <1>3, <2>1
  <2>3. n > 0 /\ 1 \in 1..n
    BY <1>5, <2>1
  <2>4. AfterOther(script, p) /\ Balance(script, p - 1) > 0
    BY <2>2, <2>3 DEF ReadAt, ArgumentAt, OpenAt
  <2>5. /\ Functions[1] \in 1..(p - 1) /\ KindAt(script, Functions[1]) = "open"
        /\ Comments(script, 1, Functions[1] - 1)
    BY <2>2, <2>3 DEF ReadAt, OpenAt
  <2>6. WrongAt(script, p)
    BY <2>1, <2>2, <2>4, <2>5 DEF WrongAt, Unfinished, ReadAt
  <2> QED
    BY <2>1, <2>6, ThrowReads
<1>8. CASE StrayClose
  <2>1. Reading /\ Top.aux = Null /\ Throw /\ script' = script /\ KindAt(script, p) = "close"
    BY <1>1, <1>8 DEF StrayClose
  <2>2. ReadAt(script, p, n - 1, Functions, TRUE, parent)
    BY <1>2, <2>1
  <2>3. n - 1 = 0 \/ n - 1 > 0
    BY <1>5, <2>1
  <2>4. KindAt(script, p) \notin {"open", "unknown"} \cup Leaves
    BY <2>1 DEF Leaves
  <2>5. Comments(script, 1, p - 1) \/ AfterOpen(script, p)
    BY <2>2, <2>3, <2>4 DEF ReadAt, OpenAt, ArgumentAt
  <2>6. WrongAt(script, p)
    BY <2>1, <2>2, <2>5 DEF WrongAt, Stray, ReadAt
  <2> QED
    BY <2>1, <2>6, ThrowReads
<1>9. CASE UnknownFunction
  <2>1. Reading /\ Top.aux = Null /\ Throw /\ script' = script /\ KindAt(script, p) = "unknown"
    BY <1>1, <1>9 DEF UnknownFunction
  <2>2. ReadAt(script, p, n - 1, Functions, TRUE, parent)
    BY <1>2, <2>1
  <2>3. WrongAt(script, p)
    BY <2>1, <2>2 DEF WrongAt, ReadAt
  <2> QED
    BY <2>1, <2>3, ThrowReads
<1>10. CASE Comment
  <2>1. /\ Reading /\ KindAt(script, p) = "comment"
        /\ stack' = [stack EXCEPT ![n].next = p + 1]
        /\ UNCHANGED <<script, parent, rest, status>>
    BY <1>1, <1>4, <1>10 DEF Comment, Behind
  <2>2. /\ Top \in Activations /\ n \in 1..n /\ stack \in Seq(Activations)
    BY <1>1, <1>4, <2>1 DEF StackInv
  <2> DEFINE moved == [Top EXCEPT !.next = p + 1]
  <2>3. /\ moved \in Activations
        /\ moved.node = Top.node /\ moved.aux = Top.aux /\ moved.next = p + 1
    <3>1. p + 1 \in Nat
      BY <1>1, <2>1
    <3> QED
      BY <2>2, <3>1 DEF Activations
  <2>4. stack' = [stack EXCEPT ![n] = moved]
    BY <1>1, <2>1
  <2> HIDE DEF moved
  <2>5. /\ stack' \in Seq(Activations) /\ Len(stack') = n
        /\ \A i \in 1..n : stack'[i] = IF i = n THEN moved ELSE stack[i]
    BY <1>4, <2>2, <2>3, <2>4, ExceptSeq
  <2>6. Top' = moved /\ Functions' = [i \in 1..n |-> stack'[i].aux]
    BY <2>2, <2>5 DEF Top, Functions
  <2>7. \A i \in 1..n : Functions'[i] = Functions[i] /\ stack'[i].node = stack[i].node
    BY <1>1, <2>1, <2>3, <2>5, <2>6
  <2>8. stack'[1].node = Root /\ status' = "reading"
    <3>1. 1 \in 1..n /\ stack[1].node = Root
      BY <1>1, <2>1 DEF ReadInv
    <3> QED
      BY <2>1, <2>7, <3>1 DEF Reading
  <2>9. CASE Top.aux = Null
    <3>1. ReadAt(script, p, n - 1, Functions, TRUE, parent)
      BY <1>2, <2>1, <2>9
    <3>2. \A i \in 1..(n - 1) : Functions'[i] = Functions[i]
      BY <1>5, <2>1, <2>7
    <3>3. ReadAt(script, p + 1, n - 1, Functions', TRUE, parent)
      BY <2>1, <3>1, <3>2, CommentRead
    <3>4. ReadAt(script', Top'.next, Len(stack') - 1, Functions', TRUE, parent')
      BY <2>1, <2>3, <2>5, <2>6, <3>3
    <3>5. Top'.aux = Null
      BY <2>3, <2>6, <2>9
    <3> QED
      BY <2>8, <3>4, <3>5 DEF ReadInv, Reading
  <2>10. CASE Top.aux # Null
    <3>1. ReadAt(script, p, n, Functions, FALSE, parent)
      BY <1>3, <2>1, <2>10
    <3>2. \A i \in 1..n : Functions'[i] = Functions[i]
      BY <2>7
    <3>3. ReadAt(script, p + 1, n, Functions', FALSE, parent)
      BY <2>1, <3>1, <3>2, CommentRead
    <3>4. ReadAt(script', Top'.next, Len(stack'), Functions', FALSE, parent')
      BY <2>1, <2>3, <2>5, <2>6, <3>3
    <3>5. Top'.aux # Null
      BY <2>3, <2>6, <2>10
    <3> QED
      BY <2>8, <3>4, <3>5 DEF ReadInv, Reading
  <2> QED
    BY <2>9, <2>10
<1>11. CASE Close
  <2>1. Reading /\ Top.aux # Null /\ Return /\ script' = script /\ KindAt(script, p) = "close"
    BY <1>1, <1>11 DEF Close
  <2>2. ReadAt(script, p, n, Functions, FALSE, parent)
    BY <1>3, <2>1
  <2>3. parent' = [m \in DOMAIN parent \cup {Functions[n]} |->
                     IF m = Functions[n] THEN Top.node ELSE parent[m]]
    BY <1>1, <1>11, <2>1 DEF Close, Attached
  <2>4. CASE n = 1
    <3>1. ReadAt(script, p, 1, Functions, FALSE, parent)
      BY <2>2, <2>4
    <3>2. parent' = [m \in DOMAIN parent \cup {Functions[1]} |->
                       IF m = Functions[1] THEN Root ELSE parent[m]]
      BY <1>1, <2>1, <2>3, <2>4
    <3>3. EndAt(script, p, parent')
      BY <2>1, <3>1, <3>2, CloseEnds
    <3> QED
      BY <1>4, <2>1, <2>4, <3>3, BackOutside
  <2>5. CASE n > 1 /\ n - 1 > 0
    <3>1. parent' = [m \in DOMAIN parent \cup {Functions[n]} |->
                       IF m = Functions[n] THEN Functions[n - 1] ELSE parent[m]]
      BY <1>1, <2>1, <2>3, <2>5
    <3>2. ASSUME NEW G, \A i \in 1..(n - 1) : G[i] = Functions[i]
          PROVE  ReadAt(script, p + 1, n - 1, G, FALSE, parent')
      BY <2>1, <2>2, <2>5, <3>1, <3>2, CloseRead
    <3> QED
      BY <1>4, <2>1, <2>5, <3>2, BackInCaller
  <2> QED
    BY <1>5, <2>1, <2>4, <2>5
<1>12. CASE Argument
  <2>1. /\ Reading /\ Top.aux # Null /\ KindAt(script, p) \in {"open", "unknown"} \cup Leaves
        /\ stack' = Append(stack, Activation(Top.aux, p))
        /\ UNCHANGED <<script, parent, rest, status>>
    BY <1>1, <1>12 DEF Argument, Receiver
  <2>2. ReadAt(script, p, n, Functions, FALSE, parent)
    BY <1>3, <2>1
  <2>3. stack' = Append([stack EXCEPT ![Len(stack)] = Holding(Top.aux)], Activation(Top.aux, p))
    <3>1. Top \in Activations /\ stack \in Seq(Activations)
      BY <1>1, <1>4, <2>1 DEF StackInv
    <3>2. Holding(Top.aux) = Top
      BY <3>1 DEF Activations, Holding
    <3>3. [stack EXCEPT ![Len(stack)] = Top] = stack
      BY <1>1, <1>4, <2>1, <3>1
    <3> QED
      BY <2>1, <3>2, <3>3
  <2>4. ASSUME NEW G, \A i \in 1..(n - 1) : G[i] = Functions[i], G[n] = Top.aux
        PROVE  ReadAt(script, p, n, G, TRUE, parent)
    <3>1. \A i \in 1..n : i = n \/ i \in 1..(n - 1)
      BY <1>1, <2>1
    <3>2. \A i \in 1..n : G[i] = Functions[i]
      BY <1>1, <2>1, <2>4, <3>1
    <3> QED
      BY <2>1, <2>2, <3>2, ArgumentRead
  <2> QED
    BY <1>1, <1>4, <2>1, <2>3, <2>4, CallReads
<1>13. CASE Open
  <2>1. /\ Reading /\ Top.aux = Null /\ KindAt(script, p) = "open"
        /\ stack' = Append([stack EXCEPT ![Len(stack)].aux = p], Activation(p, p + 1))
        /\ UNCHANGED <<script, parent, rest, status>>
    BY <1>1, <1>13 DEF Open
  <2>2. ReadAt(script, p, n - 1, Functions, TRUE, parent)
    BY <1>2, <2>1
  <2>3. stack' = Append([stack EXCEPT ![Len(stack)] = Holding(p)], Activation(p, p + 1))
    BY <1>1, <1>4, <2>1 DEF Holding
  <2>4. ASSUME NEW G, \A i \in 1..(n - 1) : G[i] = Functions[i], G[n] = p
        PROVE  ReadAt(script, p + 1, n, G, TRUE, parent)
    <3>1. (n - 1) + 1 = n
      BY <1>1, <2>1
    <3>2. ReadAt(script, p + 1, (n - 1) + 1, G, TRUE, parent)
      BY <2>1, <2>2, <2>4, <3>1, OpenRead
    <3> QED
      BY <3>1, <3>2
  <2>5. p \in Nat /\ p + 1 \in Nat
    BY <1>1, <2>1
  <2> QED
    BY <1>4, <2>1, <2>3, <2>4, <2>5, CallReads
<1>14. CASE Leaf
  <2>1. Reading /\ Top.aux = Null /\ Return /\ script' = script /\ KindAt(script, p) \in Leaves
    BY <1>1, <1>14 DEF Leaf
  <2>2. ReadAt(script, p, n - 1, Functions, TRUE, parent)
    BY <1>2, <2>1
  <2>3. parent' = [m \in DOMAIN parent \cup {p} |-> IF m = p THEN Top.node ELSE parent[m]]
    BY <1>14 DEF Leaf, Attached
  <2>4. CASE n = 1
    <3>1. ReadAt(script, p, 0, Functions, TRUE, parent)
      <4>1. n - 1 = 0
        BY <2>4
      <4>2. ReadAt(script, p, n - 1, Functions, TRUE, parent)
        BY <1>2, <2>1
      <4> QED
        BY <4>1, <4>2, Zenon
    <3>2. parent' = [m \in DOMAIN parent \cup {p} |-> IF m = p THEN Root ELSE parent[m]]
      BY <1>1, <2>1, <2>3, <2>4
    <3>3. EndAt(script, p, parent')
      BY <2>1, <3>1, <3>2, LeafEnds
    <3> QED
      BY <1>4, <2>1, <2>4, <3>3, BackOutside
  <2>5. CASE n > 1 /\ n - 1 > 0
    <3>1. parent' = [m \in DOMAIN parent \cup {p} |->
                       IF m = p THEN Functions[n - 1] ELSE parent[m]]
      BY <1>1, <2>1, <2>3, <2>5
    <3>2. ASSUME NEW G, \A i \in 1..(n - 1) : G[i] = Functions[i]
          PROVE  ReadAt(script, p + 1, n - 1, G, FALSE, parent')
      BY <2>1, <2>2, <2>5, <3>1, <3>2, LeafRead
    <3> QED
      BY <1>4, <2>1, <2>5, <3>2, BackInCaller
  <2> QED
    BY <1>5, <2>1, <2>4, <2>5
<1>15. CASE CheckRest
  <2>1. /\ status = "checking" /\ UNCHANGED <<script, stack, parent, rest>>
        /\ status' = IF KindAt(script, rest) = "blank" THEN "done" ELSE "error"
    BY <1>15 DEF CheckRest, NothingRemains, Line, KindAt
  <2>2. EndAt(script, rest - 1, parent)
    BY <2>1 DEF ReadInv
  <2> QED
    BY <2>1, <2>2 DEF ReadInv, Reading
<1>16. CASE UNCHANGED vars
  BY <1>16 DEF vars, ReadInv, Reading, Top, Functions
<1> QED
  BY <1>6, <1>7, <1>8, <1>9, <1>10, <1>11, <1>12, <1>13, <1>14, <1>15, <1>16
     DEF Next, Step, Finished

(* The first line is read with nothing open.                               *)
LEMMA InitRead == Init => ReadInv
<1> SUFFICES ASSUME Init
             PROVE  ReadInv
  OBVIOUS
<1>1. /\ stack = <<Activation(Root, 1)>> /\ Len(stack) = 1 /\ status = "reading"
      /\ Top = Activation(Root, 1) /\ stack[1] = Activation(Root, 1)
  BY DEF Init, Top
<1>2. Activation(Root, 1).node = Root /\ Activation(Root, 1).aux = Null /\ Activation(Root, 1).next = 1
  BY DEF Activation
<1>3. parent = [m \in DOMAIN parent |-> parent[m]] /\ DOMAIN parent = {}
  BY DEF Init
<1>4. TreeOf(script, 1, 0, Functions, parent)
  BY <1>3 DEF TreeOf
<1>5. OpenAt(script, 1, 0, Functions)
  <2>1. Comments(script, 1, 0)
    BY DEF Comments
  <2> QED
    BY <2>1, BalanceComments DEF OpenAt
<1>6. Clean(script, 1) /\ ArgumentAt(script, 1, 0, TRUE)
  BY DEF Clean, ArgumentAt
<1>7. ReadAt(script, 1, 0, Functions, TRUE, parent)
  <2>1. 1 \in Nat \ {0} /\ 0 \in Nat
    OBVIOUS
  <2> QED
    BY <1>4, <1>5, <1>6, <2>1, Zenon DEF ReadAt
<1>8. ReadAt(script, Top.next, Len(stack) - 1, Functions, TRUE, parent)
  <2>1. Top.next = 1 /\ Len(stack) - 1 = 0
    BY <1>1, <1>2
  <2> QED
    BY <1>7, <2>1
<1>9. Top.aux = Null /\ stack[1].node = Root
  BY <1>1, <1>2
<1> QED
  BY <1>1, <1>8, <1>9 DEF ReadInv, Reading

(* Where read_line and the Readme can agree, the two readings are one.     *)
LEMMA Agree ==
  ASSUME Len(script) \in Nat, Undisputed
  PROVE  (ReadsScript <=> Accepted) /\ ReadTree = ReferenceTree
<1> DEFINE ends == {n \in 1..(Len(script) + 1) : Line(n) = "blank"}
<1>1. EndLine = CHOOSE n \in ends : \A m \in ends : n <= m
  BY Zenon DEF EndLine
<1>2. ends \subseteq Nat /\ Len(script) + 1 \in ends
  BY DEF Line
<1>3. PICK e \in ends : \A m \in ends : e <= m
  BY <1>2, LeastNumber
<1>4. EndLine \in ends /\ \A m \in ends : EndLine <= m
  BY <1>1, <1>3, Zenon
<1>5. EndLine \in 1..(Len(script) + 1) /\ KindAt(script, EndLine) = "blank"
  BY <1>4 DEF Line, KindAt
<1>6. \A k \in 1..(EndLine - 1) : KindAt(script, k) # "blank"
  <2> SUFFICES ASSUME NEW k \in 1..(EndLine - 1), KindAt(script, k) = "blank"
               PROVE  FALSE
    OBVIOUS
  <2>1. k \in ends
    BY <1>5 DEF Line, KindAt
  <2> HIDE DEF ends
  <2> QED
    BY <1>4, <1>5, <2>1
<1>7. EndLine = Len(script) + 1 \/ ~ AfterOpen(script, EndLine)
  BY <1>5, SkippedIs DEF Undisputed
<1>8. ReadEnd = EndLine
  BY <1>5, <1>6, <1>7, EndBehind
<1>9. ReadCode = Code
  BY <1>8 DEF ReadCode, Code
<1>10. ReadFirst = First /\ ReadFinal = Final
  BY <1>9 DEF ReadFirst, First, ReadFinal, Final
<1>11. \A n : ReadDepth(n) = Depth(n)
  BY <1>9 DEF ReadDepth, Depth
<1>12. ReadsOne <=> OneExpression
  BY <1>9, <1>10, <1>11, Zenon DEF ReadsOne, OneExpression
<1>13. ReadsScript <=> Accepted
  BY <1>8, <1>9, <1>10, <1>12 DEF ReadsScript, Accepted, Undisputed
<1>14. \A m, n : ReadEncloses(m, n) <=> Encloses(m, n)
  BY <1>9, <1>11, Zenon DEF ReadEncloses, Encloses
<1>15. \A n : {m \in ReadCode : ReadEncloses(m, n)} = {m \in Code : Encloses(m, n)}
  BY <1>9, <1>14
<1>16. ReadTree = ReferenceTree
  <2> DEFINE nearest(around) ==
               IF around = {} THEN Root ELSE CHOOSE m \in around : \A k \in around : k <= m
  <2>1. ReadTree = [n \in {k \in ReadCode : script[k] # "close"} |->
                      nearest({m \in ReadCode : ReadEncloses(m, n)})]
    BY Zenon DEF ReadTree
  <2>2. ReferenceTree = [n \in {k \in Code : script[k] # "close"} |->
                           nearest({m \in Code : Encloses(m, n)})]
    BY Zenon DEF ReferenceTree
  <2> HIDE DEF nearest
  <2> QED
    BY <1>9, <1>15, <2>1, <2>2
<1> QED
  BY <1>13, <1>16

(* The compiler accepts exactly the scripts that are one expression, and   *)
(* builds exactly the tree that matching the braces gives, wherever the    *)
(* code and the Readme can agree.                                          *)
THEOREM CompilesTheorem == Spec => []CompilesExactly
<1>1. StackInv /\ ReadInv => CompilesExactly
  <2> SUFFICES ASSUME StackInv, ReadInv, Undisputed
               PROVE  CompilesAsDocumented
    BY DEF CompilesExactly
  <2>1. Len(script) \in Nat /\ rest \in Nat
    BY DEF StackInv
  <2>2. ASSUME EndAt(script, rest - 1, parent)
        PROVE  /\ ReadsScript <=> KindAt(script, rest) = "blank"
               /\ ReadsScript => parent = ReadTree
    <3>1. (rest - 1) + 1 = rest
      BY <2>1
    <3>2. /\ ReadsScript <=> KindAt(script, (rest - 1) + 1) = "blank"
          /\ ReadsScript => parent = ReadTree
      BY <2>1, <2>2, EndExact
    <3> QED
      BY <3>1, <3>2
  <2>3. \A p \in Nat : WrongAt(script, p) => ~ ReadsScript
    BY <2>1, WrongRejected
  <2>4. status = "done" => ReadsScript /\ parent = ReadTree
    BY <2>2 DEF ReadInv
  <2>5. status = "error" => ~ ReadsScript
    BY <2>2, <2>3 DEF ReadInv
  <2> QED
    BY <2>1, <2>4, <2>5, Agree DEF CompilesAsDocumented
<1>2. Spec => [](StackInv /\ ReadInv)
  <2>1. Init => StackInv /\ ReadInv
    BY InitStack, InitRead
  <2>2. (StackInv /\ ReadInv) /\ [Next]_vars => (StackInv /\ ReadInv)'
    BY NextStack, NextRead
  <2> QED
    BY <2>1, <2>2, PTL DEF Spec
<1> QED
  BY <1>1, <1>2, PTL

=============================================================================
