------------------------------ MODULE TurnLedger ------------------------------
(***************************************************************************)
(* What an idempotency key promises: of the turns that are asked under a   *)
(* key one at a time holds it, and only the holder stores anything.  What  *)
(* the holder stored becomes the outcome of the key, for good, and is what *)
(* everybody who asks the same under that key is given.  A holder that     *)
(* fails may give the key back as long as it stored nothing.               *)
(* ConversationTurns is shown to implement this.                           *)
(***************************************************************************)
CONSTANTS Turns,       \* the HTTP requests that may ever be made
          Keys,        \* idempotency keys
          Contents,    \* what may be asked
          NoKey, None,
          Forgetful    \* may a key be given back although something is stored?

VARIABLES key, content,      \* what each turn is asked, and under which key
          holder,            \* the turn that holds a key
          outcome,           \* the turn whose reply is the outcome of a key
          heard, replied,    \* turns whose message, whose reply is stored
          given              \* the turn whose reply the client was given

ledgerVars == <<key, content, holder, outcome, heard, replied, given>>

LedgerInit ==
    /\ key = [t \in Turns |-> NoKey] /\ content \in [Turns -> Contents]
    /\ holder = [k \in Keys |-> None] /\ outcome = [k \in Keys |-> None]
    /\ heard = {} /\ replied = {}
    /\ given = [t \in Turns |-> None]

Holds(t) == key[t] \in Keys /\ holder[key[t]] = t /\ outcome[key[t]] = None

Ask(t) ==
    /\ key[t] = NoKey
    /\ \E k \in Keys \cup {NoKey}, c \in Contents :
          key' = [key EXCEPT ![t] = k] /\ content' = [content EXCEPT ![t] = c]
    /\ UNCHANGED <<holder, outcome, heard, replied, given>>

Take(t) ==
    /\ key[t] \in Keys /\ holder[key[t]] = None
    /\ holder' = [holder EXCEPT ![key[t]] = t]
    /\ UNCHANGED <<key, content, outcome, heard, replied, given>>

GiveBack(t) ==
    /\ Holds(t) /\ (t \notin heard \/ Forgetful)
    /\ holder' = [holder EXCEPT ![key[t]] = None]
    /\ UNCHANGED <<key, content, outcome, heard, replied, given>>

StoreMessage(t) ==
    /\ Holds(t) /\ t \notin heard
    /\ heard' = heard \cup {t}
    /\ UNCHANGED <<key, content, holder, outcome, replied, given>>

StoreAnswer(t) ==
    /\ Holds(t) /\ t \in heard \ replied
    /\ replied' = replied \cup {t}
    /\ UNCHANGED <<key, content, holder, outcome, heard, given>>

(* The client may not hear of it.                                          *)
Finish(t) ==
    /\ Holds(t) /\ t \in replied
    /\ outcome' = [outcome EXCEPT ![key[t]] = t]
    /\ given' \in {given, [given EXCEPT ![t] = t]}
    /\ UNCHANGED <<key, content, holder, heard, replied>>

Repeat(t) ==
    /\ key[t] \in Keys /\ outcome[key[t]] # None
    /\ content[t] = content[outcome[key[t]]]
    /\ given[t] = None
    /\ given' = [given EXCEPT ![t] = outcome[key[t]]]
    /\ UNCHANGED <<key, content, holder, outcome, heard, replied>>

LedgerNext ==
    \E t \in Turns : \/ Ask(t) \/ Take(t) \/ GiveBack(t) \/ StoreMessage(t)
                     \/ StoreAnswer(t) \/ Finish(t) \/ Repeat(t)

LedgerSpec == LedgerInit /\ [][LedgerNext]_ledgerVars
=============================================================================
