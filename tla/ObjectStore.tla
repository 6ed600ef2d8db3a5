----------------------------- MODULE ObjectStore -----------------------------
(***************************************************************************)
(* What the tee-storage TA promises its clients of its objects, whatever   *)
(* the sessions do at the same time: a command that succeeds takes effect  *)
(* at one instant between its call and its return, a read answers what the *)
(* object holds then, and an object is damaged only by a command that      *)
(* writes or erases it and fails, or that power loss interrupts.           *)
(***************************************************************************)
CONSTANTS
  Session, Name,
  Content,      \* what a good object holds, the empty content included
  Empty,        \* the content of an object that has just been created
  Absent,       \* no object under the name
  Torn          \* an object that cannot be opened

VARIABLES
  value,        \* what each name holds
  op,           \* the command each session executes, or "none"
  name,         \* the object it is about
  new,          \* the content a write has been given
  answer        \* what its last command answered

state == <<value, op, name, new, answer>>

Browsing == {"list", "info", "format"}

Init ==
  /\ value = [n \in Name |-> Absent]
  /\ op = [s \in Session |-> "none"]
  /\ name \in [Session -> Name]
  /\ new \in [Session -> Content]
  /\ answer = [s \in Session |-> "none"]

Put(n, o) == value' = [value EXCEPT ![n] = o]

Finish(s, a) ==
  /\ op' = [op EXCEPT ![s] = "none"]
  /\ answer' = [answer EXCEPT ![s] = a]
  /\ UNCHANGED <<name, new>>

Begin(s) ==
  /\ op[s] = "none"
  /\ \E c \in {"write", "read", "erase"} \cup Browsing : op' = [op EXCEPT ![s] = c]
  /\ \E n \in Name : name' = [name EXCEPT ![s] = n]
  /\ \E v \in Content : new' = [new EXCEPT ![s] = v]
  /\ answer' = [answer EXCEPT ![s] = "none"]
  /\ UNCHANGED value

Refuse(s) == op[s] = "none" /\ Finish(s, "error") /\ UNCHANGED value

Write(s) == op[s] = "write" /\ Put(name[s], new[s]) /\ Finish(s, "ok")
Erase(s) == op[s] = "erase" /\ Put(name[s], Absent) /\ Finish(s, "ok")

Read(s) ==
  /\ op[s] = "read" /\ value[name[s]] \in Content
  /\ Finish(s, value[name[s]])
  /\ UNCHANGED value

\* A session that lists, counts or formats goes from object to object;
\* formatting removes the one it is at.
Browse(s) ==
  /\ op[s] \in Browsing
  /\ \E n \in Name : name' = [name EXCEPT ![s] = n]
  /\ UNCHANGED <<value, op, new, answer>>

Remove(s) ==
  /\ op[s] = "format" /\ Put(name[s], Absent)
  /\ UNCHANGED <<op, name, new, answer>>

Browsed(s) == op[s] \in Browsing /\ Finish(s, "ok") /\ UNCHANGED value

\* What a failed command may make of the object it is about.
Damage(s) ==
  CASE op[s] = "write" -> {value[name[s]], new[s], Empty, Torn, Absent}
    [] op[s] \in {"erase", "format"} -> {value[name[s]], Absent}
    [] op[s] = "read" /\ value[name[s]] = Torn -> {Torn, Absent}
    [] OTHER -> {value[name[s]]}

Fail(s) ==
  /\ op[s] # "none"
  /\ \E o \in Damage(s) : Put(name[s], o)
  /\ Finish(s, "error")

PowerLoss ==
  /\ op' = [s \in Session |-> "none"]
  /\ answer' = [s \in Session |-> "none"]
  /\ value' \in [Name -> Content \cup {Absent, Torn}]
  /\ \A n \in Name : value'[n] = value[n] \/
       \E s \in Session : op[s] = "write" /\ name[s] = n /\ value'[n] \in {new[s], Empty, Torn}
  /\ UNCHANGED <<name, new>>

Next ==
  \/ \E s \in Session :
       \/ Begin(s) \/ Refuse(s) \/ Write(s) \/ Erase(s) \/ Read(s)
       \/ Browse(s) \/ Remove(s) \/ Browsed(s) \/ Fail(s)
  \/ PowerLoss

Spec == Init /\ [][Next]_state
=============================================================================
