---------------------------- MODULE WebhooksProofs ----------------------------
(***************************************************************************)
(* The safety properties of Webhooks, for any hooks and any pulls.  What   *)
(* they rest on: a key that is gone does not come back, and a pull that    *)
(* ended well has had the answers of all its deletes.                      *)
(***************************************************************************)
EXTENDS Webhooks, TLAPS

\* A hook is called, or its day is over.
Gone(h) == WasCalled(h) \/ h \in expired

\* The hooks that pull p has listed.
Listed(p) == unread[p] \cup read[p] \cup empty[p] \cup lost[p] \cup deletes[p] \cup called[p]

\* A hook is stored before it is listed, and once only.
Unstored == \A h \in Hooks : saving[h] \in {"idle", "set"} =>
              /\ key[h] = "absent" /\ h \notin expired
              /\ \A p \in Pulls : h \notin Listed(p)

\* A key disappears only when its hook was called or has run out.
Kept == \A h \in Hooks :
          /\ saving[h] \in {"expire", "done"} => key[h] # "absent" \/ Gone(h)
          /\ \A p \in Pulls : /\ h \in Listed(p) => key[h] # "absent" \/ Gone(h)
                              /\ h \in empty[p] \cup deletes[p] => Gone(h)
          /\ key[h] # "absent" => h \notin expired

\* Before its loop a pull has not called anything, and it keeps what it has read
\* only until then.
Early == \A p \in Pulls :
           /\ pc[p] \in {"idle", "keys", "gets"} => called[p] = {} /\ deletes[p] = {}
           /\ pc[p] # "gets" => unread[p] = {} /\ read[p] = {}

\* What is ready is neither called nor over, and the pull has not lost it.
Ready == \A p \in Pulls :
           /\ pc[p] \notin {"gets", "thrown"} => ready[p] = {}
           /\ pc[p] = "gets" => ready[p] \subseteq due \cap (unread[p] \cup read[p] \cup lost[p])
           /\ \A h \in ready[p] : ~Gone(h) /\ (pc[p] = "gets" => key[h] # "absent")

\* A pull that was not cut has had its deletes answered before it ends, and an
\* answered delete leaves no key of the schema.
Answers == \A p \in Pulls :
             /\ pc[p] \in {"requests", "done", "failed"} => deletes[p] = {}
             /\ ~Cut(p) => \A h \in called[p] \ deletes[p] : schema[h] = "same" => key[h] = "absent"

\* Of two pulls that have not met, one has not begun or is over.
Apart == \A p, q \in Pulls : p # q /\ {p, q} \notin met => ~(Running(p) /\ Running(q))

\* What one of them has called the other does not list any more.
Exclusive == \A p, q \in Pulls : \A h \in called[p] :
               p # q /\ {p, q} \notin met /\ schema[h] = "same" /\ ~Cut(p) /\ ~Cut(q) =>
                 h \notin unread[q] \cup read[q] \cup called[q]

Parts == Unstored /\ Kept /\ Early /\ Ready /\ Answers /\ Apart /\ Exclusive
Inv == TypeOK /\ Parts

-----------------------------------------------------------------------------
(* Types *)

\* Nothing is stored or pulled at first.
LEMMA InitInv == Init => Inv
<1> SUFFICES ASSUME Init PROVE Inv
  OBVIOUS
<1>1. TypeOK
  BY DEF Init, TypeOK
<1>2. Parts
  BY DEF Init, Parts, Unstored, Kept, Early, Ready, Answers, Apart, Exclusive, Listed, Gone,
    WasCalled, Running, Awaits
<1> QED
  BY <1>1, <1>2 DEF Inv

\* A step keeps the types.
LEMMA StepType == TypeOK /\ [Next]_vars => TypeOK'
<1> SUFFICES ASSUME TypeOK, [Next]_vars PROVE TypeOK'
  OBVIOUS
<1> USE DEF TypeOK, hooks, mem, history
<1>1. ASSUME NEW h \in Hooks, Saving(h) PROVE TypeOK'
  BY <1>1 DEF Saving, Register, SetKey, ExpireKey, FailSave, Saves
<1>2. ASSUME NEW h \in Hooks, BecomeDue(h) \/ Expire(h) PROVE TypeOK'
  BY <1>2 DEF BecomeDue, Expire, Settled
<1>3. ASSUME NEW p \in Pulls, Start(p) PROVE TypeOK'
  BY <1>3 DEF Start, Awaits
<1>4. ASSUME NEW p \in Pulls, Keys(p) \/ FailKeys(p) PROVE TypeOK'
  BY <1>4 DEF Keys, FailKeys, Awaits, Ends
<1>5. ASSUME NEW p \in Pulls, Get(p) PROVE TypeOK'
  BY <1>5 DEF Get
<1>6. ASSUME NEW p \in Pulls, Loop(p) PROVE TypeOK'
  BY <1>6 DEF Loop, Forget, Awaits, Ends, Settled, DueEntries, ToDelete
<1>7. ASSUME NEW p \in Pulls, NEW h \in Hooks, Delete(p, h) \/ RejectDelete(p, h) PROVE TypeOK'
  BY <1>7 DEF Delete, RejectDelete, Deleted, KeyGone, Awaits, Ends
<1>8. ASSUME NEW p \in Pulls, NEW h \in Hooks, Respond(p, h) \/ FailRequest(p, h) PROVE TypeOK'
  BY <1>8 DEF Respond, FailRequest, Answered, Awaits, Ends
<1>9. ASSUME NEW p \in Pulls, Crash(p) PROVE TypeOK'
  BY <1>9 DEF Crash, Forget, Awaits, Ends
<1>10. ASSUME UNCHANGED vars PROVE TypeOK'
  BY <1>10 DEF vars
<1> QED
  BY <1>1, <1>2, <1>3, <1>4, <1>5, <1>6, <1>7, <1>8, <1>9, <1>10 DEF Next, Step, Idle

-----------------------------------------------------------------------------
(* Steps *)

\* A registration and the passing of time.
LEMMA StepHook ==
  ASSUME Inv, NEW h \in Hooks, Saving(h) \/ BecomeDue(h) \/ Expire(h)
  PROVE  Parts'
<1> USE DEF Inv, TypeOK, Parts, hooks, mem, history
<1>1. CASE Register(h) \/ FailSave(h)
  <2>1. Unstored'
    BY <1>1 DEF Register, FailSave, Saves, Unstored, Listed, Gone, WasCalled
  <2>2. Kept'
    BY <1>1 DEF Register, FailSave, Saves, Kept, Unstored, Listed, Gone, WasCalled
  <2>3. Early'
    BY <1>1 DEF Register, FailSave, Saves, Early
  <2>4. Ready'
    BY <1>1 DEF Register, FailSave, Saves, Ready, Kept, Early, Listed, Gone, WasCalled
  <2>5. Answers'
    BY <1>1 DEF Register, FailSave, Saves, Answers, Unstored, Early, Listed, Gone, WasCalled, Cut
  <2>6. Apart'
    BY <1>1 DEF Register, FailSave, Saves, Apart, Running, Awaits
  <2>7. Exclusive'
    BY <1>1 DEF Register, FailSave, Saves, Exclusive, Apart, Answers, Early, Running, Awaits, Cut, Listed, Gone, WasCalled
  <2> QED
    BY <2>1, <2>2, <2>3, <2>4, <2>5, <2>6, <2>7
<1>2. CASE SetKey(h)
  <2>1. Unstored'
    BY <1>2 DEF SetKey, Saves, Unstored, Listed, Gone, WasCalled
  <2>2. Kept'
    BY <1>2 DEF SetKey, Saves, Kept, Unstored, Listed, Gone, WasCalled
  <2>3. Early'
    BY <1>2 DEF SetKey, Saves, Early
  <2>4. Ready'
    BY <1>2 DEF SetKey, Saves, Ready, Kept, Early, Listed, Gone, WasCalled
  <2>5. Answers'
    BY <1>2 DEF SetKey, Saves, Answers, Unstored, Early, Listed, Gone, WasCalled, Cut
  <2>6. Apart'
    BY <1>2 DEF SetKey, Saves, Apart, Running, Awaits
  <2>7. Exclusive'
    BY <1>2 DEF SetKey, Saves, Exclusive, Apart, Answers, Early, Running, Awaits, Cut, Listed, Gone, WasCalled
  <2> QED
    BY <2>1, <2>2, <2>3, <2>4, <2>5, <2>6, <2>7
<1>3. CASE ExpireKey(h)
  <2>1. Unstored'
    BY <1>3 DEF ExpireKey, Saves, Unstored, Listed, Gone, WasCalled
  <2>2. Kept'
    BY <1>3 DEF ExpireKey, Saves, Kept, Unstored, Listed, Gone, WasCalled
  <2>3. Early'
    BY <1>3 DEF ExpireKey, Saves, Early
  <2>4. Ready'
    BY <1>3 DEF ExpireKey, Saves, Ready, Kept, Early, Listed, Gone, WasCalled
  <2>5. Answers'
    BY <1>3 DEF ExpireKey, Saves, Answers, Unstored, Early, Listed, Gone, WasCalled, Cut
  <2>6. Apart'
    BY <1>3 DEF ExpireKey, Saves, Apart, Running, Awaits
  <2>7. Exclusive'
    BY <1>3 DEF ExpireKey, Saves, Exclusive, Apart, Answers, Early, Running, Awaits, Cut, Listed, Gone, WasCalled
  <2> QED
    BY <2>1, <2>2, <2>3, <2>4, <2>5, <2>6, <2>7
<1>4. CASE BecomeDue(h)
  <2>1. Unstored'
    BY <1>4 DEF BecomeDue, Unstored, Listed, Gone, WasCalled
  <2>2. Kept'
    BY <1>4 DEF BecomeDue, Kept, Unstored, Listed, Gone, WasCalled
  <2>3. Early'
    BY <1>4 DEF BecomeDue, Early
  <2>4. Ready'
    BY <1>4 DEF BecomeDue, Ready, Kept, Early, Listed, Gone, WasCalled
  <2>5. Answers'
    BY <1>4 DEF BecomeDue, Answers, Unstored, Early, Listed, Gone, WasCalled, Cut
  <2>6. Apart'
    BY <1>4 DEF BecomeDue, Apart, Running, Awaits
  <2>7. Exclusive'
    BY <1>4 DEF BecomeDue, Exclusive, Apart, Answers, Early, Running, Awaits, Cut, Listed, Gone, WasCalled
  <2> QED
    BY <2>1, <2>2, <2>3, <2>4, <2>5, <2>6, <2>7
<1>5. CASE Expire(h)
  <2>1. Unstored'
    BY <1>5 DEF Expire, Settled, Unstored, Listed, Gone, WasCalled
  <2>2. Kept'
    BY <1>5 DEF Expire, Settled, Kept, Unstored, Listed, Gone, WasCalled
  <2>3. Early'
    BY <1>5 DEF Expire, Settled, Early
  <2>4. Ready'
    BY <1>5 DEF Expire, Settled, Ready, Kept, Early, Listed, Gone, WasCalled
  <2>5. Answers'
    BY <1>5 DEF Expire, Settled, Answers, Unstored, Early, Listed, Gone, WasCalled, Cut
  <2>6. Apart'
    BY <1>5 DEF Expire, Settled, Apart, Running, Awaits
  <2>7. Exclusive'
    BY <1>5 DEF Expire, Settled, Exclusive, Apart, Answers, Early, Running, Awaits, Cut, Listed, Gone, WasCalled
  <2> QED
    BY <2>1, <2>2, <2>3, <2>4, <2>5, <2>6, <2>7
<1> QED
  BY <1>1, <1>2, <1>3, <1>4, <1>5 DEF Saving

\* The queries of a pull up to its loop.
LEMMA StepRead ==
  ASSUME Inv, NEW p \in Pulls, Start(p) \/ Keys(p) \/ FailKeys(p) \/ Get(p)
  PROVE  Parts'
<1> USE DEF Inv, TypeOK, Parts, hooks, mem, history
<1>1. CASE Start(p)
  <2>1. Unstored'
    BY <1>1 DEF Start, Unstored, Listed, Gone, WasCalled
  <2>2. Kept'
    BY <1>1 DEF Start, Kept, Unstored, Listed, Gone, WasCalled
  <2>3. Early'
    BY <1>1 DEF Start, Early
  <2>4. Ready'
    BY <1>1 DEF Start, Ready, Kept, Early, Listed, Gone, WasCalled
  <2>5. Answers'
    BY <1>1 DEF Start, Answers, Unstored, Early, Listed, Gone, WasCalled, Cut
  <2>6. Apart'
    BY <1>1 DEF Start, Apart, Running, Awaits
  <2>7. Exclusive'
    <3>1. /\ called' = called /\ met \subseteq met' /\ UNCHANGED <<schema, unread, read>>
          /\ \A q \in Pulls : Cut(q)' <=> Cut(q)
      BY <1>1 DEF Start, Cut
    <3> QED
      BY <3>1 DEF Exclusive
  <2> QED
    BY <2>1, <2>2, <2>3, <2>4, <2>5, <2>6, <2>7
<1>2. CASE Keys(p)
  <2>1. Unstored'
    BY <1>2 DEF Keys, Unstored, Listed, Gone, WasCalled
  <2>2. Kept'
    BY <1>2 DEF Keys, Kept, Unstored, Listed, Gone, WasCalled
  <2>3. Early'
    BY <1>2 DEF Keys, Early
  <2>4. Ready'
    BY <1>2 DEF Keys, Ready, Kept, Early, Listed, Gone, WasCalled
  <2>5. Answers'
    BY <1>2 DEF Keys, Answers, Early, Cut
  <2>6. Apart'
    BY <1>2 DEF Keys, Apart, Running, Awaits
  <2>7. Exclusive'
    <3>1. /\ UNCHANGED <<called, met, schema, read, key>> /\ ~Cut(p) /\ Running(p)
          /\ \A q \in Pulls \ {p} : unread'[q] = unread[q] /\ (Cut(q)' <=> Cut(q))
          /\ unread'[p] = {h \in Hooks : key[h] # "absent"} /\ called[p] = {}
      BY <1>2 DEF Keys, Cut, Early, Running, Awaits
    <3>2. ASSUME NEW q \in Pulls \ {p}, {q, p} \notin met, ~Cut(q),
                 NEW h \in called[q], schema[h] = "same"
          PROVE  h \notin unread'[p]
      <4>1. pc[q] \in {"done", "failed"}
        BY <3>1, <3>2 DEF Apart, Early, Running, Awaits, Ends, Cut
      <4> QED
        BY <3>1, <3>2, <4>1 DEF Answers
    <3> QED
      BY <3>1, <3>2 DEF Exclusive
  <2> QED
    BY <2>1, <2>2, <2>3, <2>4, <2>5, <2>6, <2>7
<1>3. CASE FailKeys(p)
  <2>1. Unstored'
    BY <1>3 DEF FailKeys, Unstored, Listed, Gone, WasCalled
  <2>2. Kept'
    BY <1>3 DEF FailKeys, Kept, Unstored, Listed, Gone, WasCalled
  <2>3. Early'
    BY <1>3 DEF FailKeys, Early
  <2>4. Ready'
    BY <1>3 DEF FailKeys, Ready, Kept, Early, Listed, Gone, WasCalled
  <2>5. Answers'
    BY <1>3 DEF FailKeys, Answers, Unstored, Early, Listed, Gone, WasCalled, Cut
  <2>6. Apart'
    BY <1>3 DEF FailKeys, Apart, Running, Awaits
  <2>7. Exclusive'
    BY <1>3 DEF FailKeys, Exclusive, Apart, Answers, Early, Running, Awaits, Cut, Listed, Gone, WasCalled
  <2> QED
    BY <2>1, <2>2, <2>3, <2>4, <2>5, <2>6, <2>7
<1>4. CASE Get(p)
  <2>1. Unstored'
    BY <1>4 DEF Get, Unstored, Listed, Gone, WasCalled
  <2>2. Kept'
    BY <1>4 DEF Get, Kept, Unstored, Listed, Gone, WasCalled
  <2>3. Early'
    BY <1>4 DEF Get, Early
  <2>4. Ready'
    BY <1>4 DEF Get, Ready, Kept, Early, Listed, Gone, WasCalled
  <2>5. Answers'
    BY <1>4 DEF Get, Answers, Unstored, Early, Listed, Gone, WasCalled, Cut
  <2>6. Apart'
    BY <1>4 DEF Get, Apart, Running, Awaits
  <2>7. Exclusive'
    BY <1>4 DEF Get, Exclusive, Apart, Answers, Early, Running, Awaits, Cut, Listed, Gone, WasCalled
  <2> QED
    BY <2>1, <2>2, <2>3, <2>4, <2>5, <2>6, <2>7
<1> QED
  BY <1>1, <1>2, <1>3, <1>4

\* The loop.
LEMMA StepLoop ==
  ASSUME Inv, NEW p \in Pulls, Loop(p)
  PROVE  Parts'
<1> USE DEF Inv, TypeOK, Parts, hooks, mem, history
<1>1. CASE Loop(p)
  <2>1. Unstored'
    BY <1>1 DEF Loop, Forget, Settled, DueEntries, ToDelete, Unstored, Listed, Gone, WasCalled
  <2>2. Kept'
    <3>1. called[p] = {}
      BY <1>1 DEF Loop, Early
    <3>2. \A h \in Hooks : Gone(h) => Gone(h)'
      BY <1>1, <3>1 DEF Loop, Gone, WasCalled
    <3>3. \A h \in called'[p] : Gone(h)'
      BY DEF Gone, WasCalled
    <3>4. /\ UNCHANGED <<saving, key, expired>>
          /\ \A q \in Pulls \ {p} : Listed(q)' = Listed(q) /\ empty'[q] = empty[q] /\ deletes'[q] = deletes[q]
          /\ empty'[p] = {}
          /\ deletes'[p] \subseteq called'[p] \cup empty[p]
          /\ Listed(p)' \subseteq Listed(p)
      BY <1>1 DEF Loop, Forget, DueEntries, ToDelete, Listed
    <3> QED
      BY <3>2, <3>3, <3>4 DEF Kept
  <2>3. Early'
    BY <1>1 DEF Loop, Forget, Settled, DueEntries, ToDelete, Early
  <2>4. Ready'
    BY <1>1 DEF Loop, Forget, Settled, DueEntries, ToDelete, Ready, Kept, Early, Listed, Gone, WasCalled
  <2>5. Answers'
    BY <1>1 DEF Loop, Forget, Settled, DueEntries, ToDelete, Answers, Unstored, Early, Listed, Gone, WasCalled, Cut
  <2>6. Apart'
    BY <1>1 DEF Loop, Forget, Settled, DueEntries, ToDelete, Apart, Running, Awaits
  <2>7. Exclusive'
    <3>1. /\ UNCHANGED <<met, schema>> /\ ~Cut(p) /\ Running(p)
          /\ \A q \in Pulls \ {p} : /\ unread'[q] = unread[q] /\ read'[q] = read[q]
                                    /\ called'[q] = called[q] /\ (Cut(q)' <=> Cut(q))
          /\ unread'[p] = {} /\ read'[p] = {} /\ called'[p] \subseteq read[p]
      BY <1>1 DEF Loop, Forget, DueEntries, Cut, Running, Awaits
    <3>2. ASSUME NEW q \in Pulls \ {p}, {p, q} \notin met, ~Cut(q),
                 NEW h \in called'[p], schema[h] = "same"
          PROVE  h \notin unread[q] \cup read[q] \cup called[q]
      <4>1. unread[q] = {} /\ read[q] = {}
        BY <3>1, <3>2 DEF Apart, Early, Running, Awaits
      <4>2. h \notin called[q]
        BY <3>1, <3>2 DEF Exclusive
      <4> QED
        BY <4>1, <4>2
    <3> QED
      BY <3>1, <3>2 DEF Exclusive
  <2> QED
    BY <2>1, <2>2, <2>3, <2>4, <2>5, <2>6, <2>7
<1> QED
  BY <1>1

\* The answers a pull awaits.
LEMMA StepAnswer ==
  ASSUME Inv, NEW p \in Pulls, NEW h \in Hooks,
         Delete(p, h) \/ RejectDelete(p, h) \/ Respond(p, h) \/ FailRequest(p, h)
  PROVE  Parts'
<1> USE DEF Inv, TypeOK, Parts, hooks, mem, history
<1>1. CASE Delete(p, h)
  <2>1. Unstored'
    BY <1>1 DEF Delete, Deleted, KeyGone, Unstored, Listed, Gone, WasCalled
  <2>2. Kept'
    BY <1>1 DEF Delete, Deleted, KeyGone, Kept, Unstored, Listed, Gone, WasCalled
  <2>3. Early'
    BY <1>1 DEF Delete, Deleted, KeyGone, Early
  <2>4. Ready'
    BY <1>1 DEF Delete, Deleted, KeyGone, Ready, Kept, Early, Listed, Gone, WasCalled
  <2>5. Answers'
    BY <1>1 DEF Delete, Deleted, KeyGone, Answers, Unstored, Early, Listed, Gone, WasCalled, Cut
  <2>6. Apart'
    BY <1>1 DEF Delete, Deleted, KeyGone, Apart, Running, Awaits
  <2>7. Exclusive'
    BY <1>1 DEF Delete, Deleted, KeyGone, Exclusive, Apart, Answers, Early, Running, Awaits, Cut, Listed, Gone, WasCalled
  <2> QED
    BY <2>1, <2>2, <2>3, <2>4, <2>5, <2>6, <2>7
<1>2. CASE RejectDelete(p, h)
  <2>1. Unstored'
    BY <1>2 DEF RejectDelete, Deleted, KeyGone, Unstored, Listed, Gone, WasCalled
  <2>2. Kept'
    BY <1>2 DEF RejectDelete, Deleted, KeyGone, Kept, Unstored, Listed, Gone, WasCalled
  <2>3. Early'
    BY <1>2 DEF RejectDelete, Deleted, KeyGone, Early
  <2>4. Ready'
    BY <1>2 DEF RejectDelete, Deleted, KeyGone, Ready, Kept, Early, Listed, Gone, WasCalled
  <2>5. Answers'
    BY <1>2 DEF RejectDelete, Deleted, KeyGone, Answers, Early, Cut, Awaits, Ends
  <2>6. Apart'
    BY <1>2 DEF RejectDelete, Deleted, KeyGone, Apart, Running, Awaits
  <2>7. Exclusive'
    BY <1>2 DEF RejectDelete, Deleted, KeyGone, Exclusive, Apart, Answers, Early, Running, Awaits, Cut, Listed, Gone, WasCalled
  <2> QED
    BY <2>1, <2>2, <2>3, <2>4, <2>5, <2>6, <2>7
<1>3. CASE Respond(p, h) \/ FailRequest(p, h)
  <2>1. Unstored'
    BY <1>3 DEF Respond, FailRequest, Answered, Unstored, Listed, Gone, WasCalled
  <2>2. Kept'
    BY <1>3 DEF Respond, FailRequest, Answered, Kept, Unstored, Listed, Gone, WasCalled
  <2>3. Early'
    BY <1>3 DEF Respond, FailRequest, Answered, Early
  <2>4. Ready'
    BY <1>3 DEF Respond, FailRequest, Answered, Ready, Kept, Early, Listed, Gone, WasCalled
  <2>5. Answers'
    BY <1>3 DEF Respond, FailRequest, Answered, Answers, Unstored, Early, Listed, Gone, WasCalled, Cut
  <2>6. Apart'
    BY <1>3 DEF Respond, FailRequest, Answered, Apart, Running, Awaits
  <2>7. Exclusive'
    <3>1. /\ UNCHANGED <<called, met, schema, unread, read>>
          /\ \A q \in Pulls : Cut(q)' <=> Cut(q)
      BY <1>3 DEF Respond, FailRequest, Answered, Cut
    <3> QED
      BY <3>1 DEF Exclusive
  <2> QED
    BY <2>1, <2>2, <2>3, <2>4, <2>5, <2>6, <2>7
<1> QED
  BY <1>1, <1>2, <1>3

\* The end of a process in the middle of a pull.
LEMMA StepCrash ==
  ASSUME Inv, NEW p \in Pulls, Crash(p)
  PROVE  Parts'
<1> USE DEF Inv, TypeOK, Parts, hooks, mem, history
<1>1. Unstored'
  BY DEF Crash, Forget, Unstored, Listed, Gone, WasCalled
<1>2. Kept'
  BY DEF Crash, Forget, Kept, Unstored, Listed, Gone, WasCalled
<1>3. Early'
  BY DEF Crash, Forget, Early
<1>4. Ready'
  BY DEF Crash, Forget, Ready, Kept, Early, Listed, Gone, WasCalled
<1>5. Answers'
  BY DEF Crash, Forget, Answers, Unstored, Early, Listed, Gone, WasCalled, Cut
<1>6. Apart'
  BY DEF Crash, Forget, Apart, Running, Awaits
<1>7. Exclusive'
  BY DEF Crash, Forget, Exclusive, Apart, Answers, Early, Running, Awaits, Cut, Listed, Gone, WasCalled
<1> QED
  BY <1>1, <1>2, <1>3, <1>4, <1>5, <1>6, <1>7

\* Inv holds in every state, for any hooks and pulls.
THEOREM Invariance == Spec => []Inv
<1>1. Init => Inv
  BY InitInv
<1>2. Inv /\ [Next]_vars => Inv'
  <2> SUFFICES ASSUME Inv, [Next]_vars PROVE Parts'
    BY StepType DEF Inv
  <2>1. CASE UNCHANGED vars
    BY <2>1 DEF Inv, TypeOK, vars, hooks, mem, history, Parts, Unstored, Kept, Early, Ready, Answers,
      Apart, Exclusive, Listed, Gone, WasCalled, Running, Cut
  <2> QED
    BY <2>1, StepHook, StepRead, StepLoop, StepAnswer, StepCrash DEF Next, Step, Idle
<1> QED
  BY <1>1, <1>2, PTL DEF Spec

-----------------------------------------------------------------------------
(* Theorems *)

\* The variables keep their types; a pull that waits for deletes has some to wait for.
THEOREM TypeCorrect == Spec => []TypeOK
<1>1. Inv => TypeOK
  BY DEF Inv
<1> QED
  BY <1>1, Invariance, PTL

\* A stored hook leaves Redis only when it was called or its day is over.
THEOREM NoneForgotten == Spec => []DeletedWasCalled
<1>1. Inv => DeletedWasCalled
  BY DEF Inv, Parts, Kept, Gone, DeletedWasCalled
<1> QED
  BY <1>1, Invariance, PTL

\* Two pulls that call one hook have met, or a query of one failed.
THEOREM TwiceExplained == Spec => []CalledTwiceHasACause
<1>1. Inv => CalledTwiceHasACause
  BY DEF Inv, TypeOK, Parts, Exclusive, CalledTwiceHasACause
<1> QED
  BY <1>1, Invariance, PTL

\* A pull leaves no hook behind that was due when it listed it.
THEOREM DueCalled == Spec => []DueHooksAreCalled
<1>1. Inv => DueHooksAreCalled
  BY DEF Inv, Parts, Ready, DueHooksAreCalled
<1> QED
  BY <1>1, Invariance, PTL

===============================================================================
