--------------------------- MODULE WorkstationRef ---------------------------
(***************************************************************************)
(* WorkstationRef.NormalizedExternal                                       *)
(* (apis/workstations/v1beta1/workstation_reference.go): resolving a      *)
(* reference to a Workstation either from its External field or, through  *)
(* a client.Reader, from status.externalRef of the named object.  The      *)
(* method has a pointer receiver and writes the resolved value (and the    *)
(* defaulted namespace) back into it, so the receiver is state that        *)
(* outlives a call.  The cluster changes independently of the caller: the  *)
(* Workstation controller creates, readies, re-acquires and deletes the    *)
(* object.  One call of the method is one atomic action.                   *)
(***************************************************************************)
EXTENDS Naturals

CONSTANTS
  Externals,   \* values an External or a status.externalRef can hold
  WellFormed,  \* those ParseWorkstationExternal accepts
  Names,       \* metadata.name of Workstation objects
  Namespaces,  \* namespaces, of the object and of the referencing resource
  Absent,      \* a model value: no object under the key (Get returns NotFound)
  BadStatus,   \* a model value: status.externalRef present but not a string
  None         \* a model value: no call has returned yet

ASSUME WellFormed \subseteq Externals

Keys == Names \X Namespaces

\* What the reader can find under a key: no object, a malformed status,
\* an object not ready yet (""), or one with its externalRef.
ObjStates == {Absent, BadStatus, ""} \cup Externals

Refs == [external : {""} \cup Externals, name : {""} \cup Names,
         namespace : {""} \cup Namespaces]

Errors == {"both", "parse", "notFound", "read", "nested", "notReady"}
Returns == [ok : {TRUE}, val : Externals] \cup [ok : {FALSE}, err : Errors]

VARIABLES
  ref,       \* the *WorkstationRef receiver
  home,      \* otherNamespace: the namespace of the referencing resource
  declared,  \* (history) the reference as the user wrote it in the spec
  obj,       \* the cluster: the state of the object under each key
  ret,       \* what the last call returned
  moved      \* (history) the cluster changed since the last call

vars == <<ref, home, declared, obj, ret, moved>>

TypeOK ==
  /\ ref \in Refs
  /\ home \in Namespaces
  /\ declared \in Refs
  /\ obj \in [Keys -> ObjStates]
  /\ ret \in Returns \cup {None}
  /\ moved \in BOOLEAN

-----------------------------------------------------------------------------
\* Mutant: the guard against both fields set is missing.
BothSetNever(r) == FALSE

\* r.External != "" && r.Name != ""
BothSet(r) == r.external # "" /\ r.name # ""

\* ParseWorkstationExternal accepts the value.
Parses(e) == e \in WellFormed

\* reader.Get on the key.  No object has an empty or unknown name: a
\* cached reader answers NotFound, a direct one a request error, which is
\* the readFails choice of the call.
Lookup(name, ns) == IF name \in Names THEN obj[<<name, ns>>] ELSE Absent

\* Mutant: the empty-externalRef check is missing.
NotReadyNever(s) == FALSE

\* actualExternalRef == "": the object exists but is not ready yet.
NotReady(s) == s = ""

\* Mutant: the namespace of the caller is used even when one is given.
NamespaceOfCaller(r, otherNs) == otherNs

\* if r.Namespace == "" { r.Namespace = otherNamespace }
Namespace(r, otherNs) == IF r.namespace = "" THEN otherNs ELSE r.namespace

Ok(v) == [ok |-> TRUE, val |-> v]
Err(e) == [ok |-> FALSE, err |-> e]

Init ==
  /\ ref \in Refs
  /\ home \in Namespaces
  /\ declared = ref
  /\ obj \in [Keys -> ObjStates]
  /\ ret = None
  /\ moved = FALSE

\* One call, by the referencing resource in namespace home.  readFails
\* is a transient error of reader.Get other than NotFound.
NormalizedExternal(readFails) ==
  LET ns  == Namespace(ref, home)
      got == Lookup(ref.name, ns)
  IN
  /\ moved' = FALSE
  /\ UNCHANGED <<home, declared, obj>>
  /\ CASE BothSet(ref) ->
            /\ ret' = Err("both")
            /\ UNCHANGED ref
       [] ref.external # "" ->
            /\ ret' = IF Parses(ref.external) THEN Ok(ref.external)
                      ELSE Err("parse")
            /\ UNCHANGED ref
       [] OTHER ->
            LET r1 == [ref EXCEPT !.namespace = ns] IN
            CASE readFails        -> ret' = Err("read") /\ ref' = r1
              [] got = Absent     -> ret' = Err("notFound") /\ ref' = r1
              [] got = BadStatus  -> ret' = Err("nested") /\ ref' = r1
              [] NotReady(got)    -> ret' = Err("notReady") /\ ref' = r1
              [] OTHER            -> ret' = Ok(got)
                                     /\ ref' = [r1 EXCEPT !.external = got]

\* The Workstation controller or a user changes the object under a key.
ClusterChange ==
  /\ \E k \in Keys, s \in ObjStates :
       /\ s # obj[k]
       /\ obj' = [obj EXCEPT ![k] = s]
  /\ moved' = TRUE
  /\ UNCHANGED <<ref, home, declared, ret>>

Next ==
  \/ \E readFails \in BOOLEAN : NormalizedExternal(readFails)
  \/ ClusterChange

\* The controller of the referencing resource requeues it, so the method
\* is called again and again, and a transient read error does not recur
\* forever: a call that reaches the cluster is weakly fair.
Spec == Init /\ [][Next]_vars /\ WF_vars(NormalizedExternal(FALSE))

-----------------------------------------------------------------------------
(* Properties.                                                              *)

\* Until the cluster changes again, a value the method returned is either
\* the External the user declared or the status.externalRef the object
\* named by the reference has now: the value cached into r.External on a
\* resolution by name is never handed out once the object has moved on.
\* The "cannot specify both" check is what stops the cached value from
\* being returned by a later call.
ReturnsCurrentOrDeclared ==
  (ret # None /\ ret.ok /\ ~moved) =>
     \/ ret.val = declared.external
     \/ ret.val = Lookup(declared.name, ref.namespace)

\* The doc comment: the declared External is used, otherwise Name and
\* Namespace are looked up.  Resolving the same reference again, with the
\* cluster unchanged and no transient read error, gives the same answer.
SecondCallAgrees ==
  [][(ret # None /\ ret.ok /\ ~moved /\ ~moved' /\ ret' # Err("read"))
       => ret' = ret]_vars

\* The object a reference by name designates: its name in the namespace
\* given, or else in the referencing resource's namespace.
Target == <<declared.name, IF declared.namespace = "" THEN home
                           ELSE declared.namespace>>

\* A reference by name to an object that becomes ready and stays ready is
\* eventually resolved: NotFound and NotReady are answers that requeueing
\* gets past, and the namespace defaulting looks in the right place.
ResolvesOnceReady ==
  (declared.external = "" /\ declared.name \in Names
     /\ <>[](Lookup(Target[1], Target[2]) \in Externals))
  => <>(ret # None /\ ret.ok)

=============================================================================
