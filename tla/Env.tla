-------------------------------- MODULE Env ---------------------------------
(***************************************************************************)
(* What a program may rely on of the interpreter's variables, with no heap *)
(* in sight: every variable is a cell of its own, an assignment changes    *)
(* the one variable it names, and no scope, call, error or collection      *)
(* changes a variable that stays in scope.                                 *)
(*                                                                         *)
(* A frame is what one function activation sees.  The first scope of the   *)
(* first frame holds the globals; the first scope of another frame holds   *)
(* the `static` variables that activation has defined.  An activation sees *)
(* its own scopes and, behind them, the first scope of each activation it  *)
(* was called from: the statics of a function are seen by the calls it     *)
(* makes, until it returns.                                                *)
(***************************************************************************)
EXTENDS Naturals, Sequences, SequencesExt

CONSTANTS Names, Vals

VARIABLE frames  \* Seq of Seq of (name -> value)

Current == Last(frames)
Here(scopes) == frames' = [frames EXCEPT ![Len(frames)] = scopes]
With(scope, n, v) == [x \in DOMAIN scope \cup {n} |-> IF x = n THEN v ELSE scope[x]]

\* The variable a name denotes: innermost scope first, then the first scopes
\* of the callers, nearest first.
Denotes(k, i, n) ==
    \/ /\ k = Len(frames)
       /\ n \in DOMAIN Current[i]
       /\ \A j \in DOMAIN Current : n \in DOMAIN Current[j] => j <= i
    \/ /\ k < Len(frames) /\ i = 1
       /\ n \in DOMAIN frames[k][1]
       /\ \A l \in k + 1 .. Len(frames) : n \notin DOMAIN frames[l][1]
       /\ \A j \in DOMAIN Current : n \notin DOMAIN Current[j]

Init == frames = << << << >> >> >>

Define(i, n, v) == Here([Current EXCEPT ![i] = With(@, n, v)])

Assign(n, v) ==
    \E k \in DOMAIN frames : \E i \in DOMAIN frames[k] :
        Denotes(k, i, n) /\ frames' = [frames EXCEPT ![k][i][n] = v]

NewScopes == {<< >>} \cup {[x \in {n} |-> v] : n \in Names, v \in Vals}

Enter == \E s \in NewScopes : Here(Append(Current, s))
Leave == Len(Current) > 1 /\ Here(Front(Current))
Call == \E s \in NewScopes : frames' = Append(frames, << << >>, s>>)
Return == Len(frames) > 1 /\ frames' = Front(frames)

Next ==
    \/ \E n \in Names, v \in Vals :
          \/ Define(Len(Current), n, v)
          \/ Define(1, n, v)
          \/ Assign(n, v)
    \/ Enter \/ Leave \/ Call \/ Return

Spec == Init /\ [][Next]_frames
=============================================================================
