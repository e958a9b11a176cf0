-------------------------- MODULE HymnDictionary --------------------------
(***************************************************************************)
(* What a Hymn table promises a script: a map from interned strings to     *)
(* values.  HymnTable implements it with chains of items in bins.          *)
(***************************************************************************)
EXTENDS Naturals

CONSTANTS
  Keys,       \* interned strings
  Values,     \* values of the language
  UNDEFINED   \* the answer when there is no such key

VARIABLES
  dict,     \* the value of each key, UNDEFINED when it is not there
  answer    \* what the last call returned

dictVars == <<dict, answer>>

DictInit ==
  /\ dict = [k \in Keys |-> UNDEFINED]
  /\ answer = UNDEFINED

\* t[k] = v, answered with the value that is overwritten
Store(k, v) ==
  /\ dict' = [dict EXCEPT ![k] = v]
  /\ answer' = dict[k]

\* t[k]
Lookup(k) ==
  /\ answer' = dict[k]
  /\ UNCHANGED dict

\* delete t[k], answered with the value that is removed
Drop(k) ==
  /\ dict' = [dict EXCEPT ![k] = UNDEFINED]
  /\ answer' = dict[k]

\* clear(t)
Empty ==
  /\ dict' = [k \in Keys |-> UNDEFINED]
  /\ answer' = UNDEFINED

DictNext ==
  \/ \E k \in Keys, v \in Values : Store(k, v)
  \/ \E k \in Keys : Lookup(k)
  \/ \E k \in Keys : Drop(k)
  \/ Empty

DictSpec == DictInit /\ [][DictNext]_dictVars
=============================================================================
