--------------------------- MODULE ClassifierPool ---------------------------
(***************************************************************************)
(* The pool of face classifiers (face.cpp): threads that call faceNum      *)
(* borrow one each, through a DetectWrapper on their stack.  The pool does *)
(* not make them wait: when it is empty they get a null pointer and use it *)
(* all the same.  The images are data; a picture that cannot be read never *)
(* gets as far as the pool.                                                *)
(***************************************************************************)
EXTENDS FiniteSets, Sequences, SequencesExt

CONSTANTS
  Agents,   (* the classifiers that init() creates: 10 in the code          *)
  Threads,  (* threads that call faceNum                                    *)
  NULL

ASSUME PoolAssumption ==
  /\ IsFiniteSet(Agents)
  /\ IsFiniteSet(Threads)
  /\ NULL \notin Agents

VARIABLES
  agentList_,  (* FaceDetect::agentList_                                    *)
  cascade_,    (* DetectWrapper::cascade_ of each thread                    *)
  inside,      (* threads with a DetectWrapper                              *)
  down         (* a null classifier was used                                *)

vars == <<agentList_, cascade_, inside, down>>

TypeOK ==
  /\ agentList_ \in Seq(Agents)
  /\ cascade_ \in [Threads -> Agents \cup {NULL}]
  /\ inside \in SUBSET Threads
  /\ down \in BOOLEAN
  /\ \A t \in Threads : cascade_[t] # NULL => t \in inside

-----------------------------------------------------------------------------
(* faceInit has run.                                                       *)
Init ==
  /\ agentList_ \in SetToSeqs(Agents)
  /\ cascade_ = [t \in Threads |-> NULL]
  /\ inside = {}
  /\ down = FALSE

(* Mutant of GetClassifier: the front of the list is not removed.          *)
GetClassifierKeeps(t) ==
  /\ t \notin inside
  /\ inside' = inside \cup {t}
  /\ IF agentList_ = <<>>
     THEN UNCHANGED <<agentList_, cascade_>>
     ELSE /\ cascade_' = [cascade_ EXCEPT ![t] = Head(agentList_)]
          /\ UNCHANGED agentList_
  /\ UNCHANGED down

(* The constructor of DetectWrapper.                                       *)
GetClassifier(t) ==
  /\ t \notin inside
  /\ inside' = inside \cup {t}
  /\ IF agentList_ = <<>>
     THEN UNCHANGED <<agentList_, cascade_>>
     ELSE /\ cascade_' = [cascade_ EXCEPT ![t] = Head(agentList_)]
          /\ agentList_' = Tail(agentList_)
  /\ UNCHANGED down

(* Mutant of ReturnResource: it is forgotten.                              *)
ReturnResourceNever(t) ==
  /\ cascade_[t] # NULL
  /\ cascade_' = [cascade_ EXCEPT ![t] = NULL]
  /\ inside' = inside \ {t}
  /\ UNCHANGED <<agentList_, down>>

(* Detection ends or throws; either way the destructor runs.               *)
ReturnResource(t) ==
  /\ cascade_[t] # NULL
  /\ cascade_' = [cascade_ EXCEPT ![t] = NULL]
  /\ inside' = inside \ {t}
  /\ agentList_' = Append(agentList_, cascade_[t])
  /\ UNCHANGED down

(* detectMultiScale on a null pointer, whatever the list holds by now.     *)
DetectOnNull(t) ==
  /\ t \in inside
  /\ cascade_[t] = NULL
  /\ down' = TRUE
  /\ UNCHANGED <<agentList_, cascade_, inside>>

Next ==
  /\ ~down
  /\ \E t \in Threads : GetClassifier(t) \/ ReturnResource(t) \/ DetectOnNull(t)

Spec == Init /\ [][Next]_vars

-----------------------------------------------------------------------------
Free == ToSet(agentList_)
Borrowed == {cascade_[t] : t \in Threads} \ {NULL}

(* A classifier is no object two threads may use at once: it is lent to    *)
(* one thread at most, and a lent one is not in the list.                  *)
Exclusive ==
  /\ Free \cap Borrowed = {}
  /\ \A s, t \in Threads : cascade_[s] = cascade_[t] /\ cascade_[s] # NULL => s = t

(* No classifier is lost or listed twice, however often they change hands. *)
Conserved ==
  /\ IsInjective(agentList_)
  /\ Free \cup Borrowed = Agents

(* A thread goes away empty-handed only while the others hold all          *)
(* classifiers.                                                            *)
NullOnlyWhenAllOut ==
  [][\A t \in Threads :
       t \in inside' \ inside /\ cascade_'[t] = NULL =>
         \A a \in Agents : \E s \in inside : s # t /\ cascade_[s] = a]_vars
=============================================================================
