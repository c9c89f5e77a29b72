---------------------------- MODULE AtomicTokens ----------------------------
(***************************************************************************)
(* What the users of a usbferry server rely on when they add and remove     *)
(* tokens: one document, each edit a single step of it, and each            *)
(* authentication decided by the document as it was at one moment between   *)
(* its beginning and its end.  An edit of the server's that was reported as *)
(* failed is in doubt: authentications may act on it, a later edit may      *)
(* bring it into the document, and it may be forgotten.  Nothing is         *)
(* promised once edits have raced.  TokenStore, with its files, copies and  *)
(* caches, implements this.                                                 *)
(***************************************************************************)
CONSTANT Tokens

VARIABLES
    document, \* the tokens of the document
    whole,    \* can it be read?
    gone,     \* tokens reported as removed
    failed,   \* tokens whose edit was reported as failed, and is in doubt
    auth,     \* the authentication: "none", "asked" or "answered"
    answer,   \* the document that decides it, once it is known which: at most one
    raced     \* have edits run into each other?

vars == <<document, whole, gone, failed, auth, answer, raced>>

Init ==
    /\ \E first \in Tokens : document = {first}
    /\ whole = TRUE
    /\ gone = {} /\ failed = {}
    /\ auth = "none" /\ answer = {}
    /\ raced = FALSE

\* The document with the edits that are in doubt, taken one way or the other.  No
\* token that is gone is among them.
Readings == {d \in SUBSET Tokens : d \ failed = document \ failed /\ d \cap gone = {}}

\* An edit leaves those in doubt alone, or settles all of them with it.
Add(t) ==
    /\ t \notin gone
    /\ \/ document' = document \cup {t} /\ failed' = failed
       \/ (\E d \in Readings : document' = d \cup {t}) /\ failed' = {}
    /\ UNCHANGED <<gone, auth, answer>>

\* The removal is reported when it is done.
Remove(t) ==
    /\ \/ document' = document \ {t} /\ failed' = failed
       \/ (\E d \in Readings : document' = d \ {t}) /\ failed' = {}
    /\ gone' = gone \cup {t}
    /\ UNCHANGED <<auth, answer>>

\* What decides may be the document now, or that of a later moment.
Ask ==
    /\ auth # "asked"
    /\ auth' = "asked"
    /\ answer' = {} \/ \E d \in Readings : answer' = {d}
    /\ UNCHANGED <<document, gone, failed>>

Answer ==
    /\ auth = "asked"
    /\ auth' = "answered"
    /\ \/ answer # {} /\ UNCHANGED <<answer, failed>>
       \/ answer = {} /\ answer' = {document} /\ failed' = {}
    /\ UNCHANGED <<document, gone>>

\* An edit of the server's fails to be saved.
Fail(t) ==
    /\ failed' = failed \cup {t}
    /\ auth' = "none" /\ answer' = {}
    /\ UNCHANGED <<document, gone>>

\* The server goes on to something else, or dies and forgets what was in doubt.
Forget ==
    /\ auth' = "none" /\ answer' = {}
    /\ failed' \in {failed, {}}
    /\ UNCHANGED <<document, gone>>

Serves == (\E t \in Tokens : Add(t) \/ Remove(t) \/ Fail(t)) \/ Ask \/ Answer \/ Forget

Next ==
    \/ Serves /\ whole' = TRUE /\ ~ raced /\ raced' = FALSE
    \/ raced' = TRUE

Spec == Init /\ [][Next]_vars
=============================================================================
