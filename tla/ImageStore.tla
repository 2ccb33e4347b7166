----------------------------- MODULE ImageStore -----------------------------
(***************************************************************************)
(* What resolving layers promises, seen from outside: a store that holds   *)
(* whole images only, and one maker for each key, whose answer goes to all *)
(* who asked for the key by then.  It says nothing of staging directories, *)
(* renames, the index, contexts or kraft; ImageCache is shown to implement *)
(* it whatever fails and whatever the sources do meanwhile.                *)
(***************************************************************************)
CONSTANTS
  Jobs,
  Keys, NoKey,
  SourceOf,     \* the source a job wants an image of
  Offers,       \* the keys a source may have, some of them shared with others
  Images, NoImage,
  Gives,        \* the images of the sources that may have a key
  NoJob

VARIABLES
  store,   \* images that are there, each of them whole
  kept,    \* those that a power loss spares
  maker,   \* who makes the image of a key
  asks,    \* the key each job waits for
  answer

Init ==
  /\ store = {} /\ kept = {}
  /\ maker = [k \in Keys |-> NoJob]
  /\ asks = [j \in Jobs |-> NoKey]
  /\ answer = [j \in Jobs |-> NoImage]

\* A job asks for a key of its source; the first who asks makes the image.
Ask(j, k) ==
  /\ asks[j] = NoKey /\ answer[j] = NoImage /\ k \in Offers[SourceOf[j]]
  /\ asks' = [asks EXCEPT ![j] = k]
  /\ maker' = IF maker[k] = NoJob THEN [maker EXCEPT ![k] = j] ELSE maker
  /\ UNCHANGED <<store, kept, answer>>

\* An image appears whole, and only a maker of a key of its source adds it.
Add(k, c) ==
  /\ maker[k] # NoJob /\ c \in Gives[k]
  /\ store' = store \cup {c}
  /\ UNCHANGED <<kept, maker, asks, answer>>

Keep == kept' = store /\ UNCHANGED <<store, maker, asks, answer>>

\* All who asked for the key learn of the same image, or that there is none.
Settle(k, r) ==
  /\ maker[k] # NoJob
  /\ r # NoImage => r \in store /\ r \in Gives[k]
  /\ answer' = [j \in Jobs |-> IF asks[j] = k THEN r ELSE answer[j]]
  /\ asks' = [j \in Jobs |-> IF asks[j] = k THEN NoKey ELSE asks[j]]
  /\ maker' = [maker EXCEPT ![k] = NoJob]
  /\ UNCHANGED <<store, kept>>

\* Jobs that wait for nothing start over.
Renew ==
  /\ UNCHANGED <<store, kept, maker, asks>>
  /\ \E js \in SUBSET {j \in Jobs : asks[j] = NoKey} :
       answer' = [j \in Jobs |-> IF j \in js THEN NoImage ELSE answer[j]]

\* The runner, or its host, dies: only an image that was not kept may be gone.
Restart ==
  /\ maker' = [k \in Keys |-> NoJob]
  /\ asks' = [j \in Jobs |-> NoKey]
  /\ answer' = [j \in Jobs |-> NoImage]
  /\ \/ UNCHANGED <<store, kept>>
     \/ kept \subseteq store' /\ store' \subseteq store /\ kept' = store'

Next ==
  \/ Renew \/ Keep \/ Restart
  \/ \E k \in Keys : \/ \E j \in Jobs : Ask(j, k)
                     \/ \E c \in Images : Add(k, c)
                     \/ \E r \in Images \cup {NoImage} : Settle(k, r)

Spec == Init /\ [][Next]_<<store, kept, maker, asks, answer>>

\* Whatever a job is told of is there, and an image of its own source or of one
\* that may have the same key.
AnswersFit ==
  \A j \in Jobs :
    /\ asks[j] # NoKey => asks[j] \in Offers[SourceOf[j]]
    /\ answer[j] # NoImage =>
         answer[j] \in store /\ \E k \in Offers[SourceOf[j]] : answer[j] \in Gives[k]
=============================================================================
