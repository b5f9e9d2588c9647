------------------------------- MODULE Channels -------------------------------
(***************************************************************************)
(* The channels of a run: the reducers (governai/runtime/reducers.py) and the  *)
(* state update of a command (_apply_state_update of local.py), which applies  *)
(* them one by one to the cached state; a step that gets through is persisted, *)
(* a reducer that raises ends the run as it is.                              *)
(*                                                                         *)
(* A value has a kind, and its parts: the values of a list by position, those   *)
(* of a dictionary by key, and the number or text itself. A text is a numeral, *)
(* which int() and str() take for the number and back.                       *)
(***************************************************************************)
EXTENDS Lists, Integers, SequencesExt

CONSTANTS ChannelNames,
          ReducerOf,  \* the reducer of each channel
          Defaults,   \* channel_defaults
          Updates,    \* the values a command may write
          MaxUpdates  \* bound on the commands

Empty == [kind |-> "none", of |-> <<>>]
Is(kind, v) == v.kind = kind
List(of) == [kind |-> "list", of |-> of]
Dict(of) == [kind |-> "dict", of |-> of]
Failure == [kind |-> "failure", of |-> <<>>]

ASSUME ChannelConstants ==
  \A c \in ChannelNames :
    LET of == Defaults[c].of IN
      /\ Defaults[c].kind \in {"list", "dict"} => of = [key \in DOMAIN of |-> of[key]]
      /\ Is("list", Defaults[c]) => Len(of) \in Nat /\ DOMAIN of = 1 .. Len(of)

VARIABLES cached,   \* the channels of the object in the cache
          stored,   \* those of the stored run
          written,  \* the values of the updates persisted so far, by channel
          commands, \* how many updates that is
          ended     \* whether a reducer raised

channelVars == <<cached, stored, written, commands, ended>>

(* What a list brings, or any other value by itself. *)
Parts(v) == IF Is("list", v) THEN v.of ELSE <<v>>

(* The keys, or positions, that the texts and numbers in a value are. *)
IsAtom(v) == v.kind \in {"number", "text"}
Named(v) == {w.of[1] : w \in {u \in ToSet(Parts(v)) : IsAtom(u)}}

WithoutKeys(of, keys) == [key \in DOMAIN of \ keys |-> of[key]]
WithoutPositions(of, positions) == Selected(of, DOMAIN of \ positions)

Merge(current, update) ==
  LET base == IF Is("dict", current) THEN current.of ELSE <<>> IN
    IF ~Is("dict", update) THEN Failure
    ELSE Dict([key \in DOMAIN base \cup DOMAIN update.of |->
                 IF key \in DOMAIN update.of THEN update.of[key] ELSE base[key]])

AppendTo(current, update) ==
  IF current.kind \notin {"none", "list"} THEN Failure
  ELSE List(current.of \o Parts(update))

Prune(current, update) ==
  CASE Is("dict", current) /\ update.kind \in {"text", "list"} ->
         Dict(WithoutKeys(current.of, Named(update)))
    [] Is("list", current) /\ update.kind \in {"number", "list"}
                           /\ \A v \in ToSet(Parts(update)) : IsAtom(v) ->
         List(WithoutPositions(current.of, Named(update)))
    [] current.kind \notin {"dict", "list"} -> current
    [] OTHER -> Failure

Reduce(name, current, update) ==
  CASE name = "replace" -> update
    [] name = "merge" -> Merge(current, update)
    [] name = "append" -> AppendTo(current, update)
    [] name = "prune" -> Prune(current, update)
    [] name = "clear" -> Empty
    [] OTHER -> Failure \* KeyError

ChannelsInit ==
  /\ cached = Defaults
  /\ stored = Defaults
  /\ written = [c \in ChannelNames |-> <<>>]
  /\ commands = 0
  /\ ended = FALSE

(* An update is a dictionary: a list of pairs of a channel and a value, with no *)
(* channel twice.                                                           *)
Writes(update, c) == {n \in DOMAIN update : update[n][1] = c}
WriteTo(update, c) == CHOOSE n \in Writes(update, c) : TRUE

(* One channel after the other, up to the first whose reducer raises; each      *)
(* reducer gets what its channel had before, as no other write is to it.       *)
Apply(channels, update) ==
  LET value(n) == Reduce(ReducerOf[update[n][1]], channels[update[n][1]], update[n][2])
      raising == {n \in DOMAIN update : Is("failure", value(n))}
      reached(n) == \A m \in raising : n < m
  IN [failed |-> raising # {},
      channels |-> [c \in ChannelNames |->
                      IF \E n \in Writes(update, c) : reached(n)
                      THEN value(WriteTo(update, c)) ELSE channels[c]]]

(* Faulty variant: what was applied before a reducer failed is persisted too. *)
PersistsAnyway(outcome) == TRUE
Persists(outcome) == ~outcome.failed

ApplyStateUpdate(update) ==
  LET outcome == Apply(cached, update) IN
    /\ ~ended
    /\ cached' = outcome.channels
    /\ ended' = outcome.failed
    /\ stored' = IF Persists(outcome) THEN cached' ELSE stored
    /\ IF outcome.failed THEN UNCHANGED <<written, commands>>
       ELSE /\ commands' = commands + 1
            /\ written' = [c \in ChannelNames |->
                             IF Writes(update, c) = {} THEN written[c]
                             ELSE Append(written[c], update[WriteTo(update, c)][2])]

(* resume_from_checkpoint goes on with the stored run, not with the object. *)
Restored == stored

RestoreChannels ==
  /\ ended
  /\ cached' = Restored
  /\ ended' = FALSE
  /\ UNCHANGED <<stored, written, commands>>

-----------------------------------------------------------------------------
(* What a reducer promises of the values written to its channel. *)

(* A base, followed by the parts of each value. *)
AllParts(base, values) ==
  LET upTo[n \in 0 .. Len(values)] ==
        IF n = 0 THEN base ELSE upTo[n - 1] \o Parts(values[n])
  IN upTo[Len(values)]

(* A key has the value of the last update that has the key. *)
Merged(c, v) ==
  LET had == IF Is("dict", Defaults[c]) THEN DOMAIN Defaults[c].of ELSE {}
      updatesWith(key) == {n \in DOMAIN written[c] : key \in DOMAIN written[c][n].of}
      all == had \cup UNION {DOMAIN written[c][n].of : n \in DOMAIN written[c]} IN
    written[c] # <<>> =>
      /\ Is("dict", v) /\ DOMAIN v.of = all
      /\ \A key \in all :
           IF updatesWith(key) = {} THEN v.of[key] = Defaults[c].of[key]
           ELSE \E last \in updatesWith(key) :
                  /\ \A n \in updatesWith(key) : n <= last
                  /\ v.of[key] = written[c][last].of[key]

(* The stored channels are what the updates that were persisted make of the     *)
(* defaults, each channel by itself and each update as a whole: an update whose *)
(* reducer fails at a later channel leaves nothing in the store.             *)
KeepsPromise(c) ==
  CASE ReducerOf[c] = "append" ->
         stored[c].of = AllParts(Defaults[c].of, written[c])
    [] ReducerOf[c] = "merge" -> Merged(c, stored[c])
    [] ReducerOf[c] = "replace" ->
         written[c] # <<>> => stored[c] = written[c][Len(written[c])]
    [] ReducerOf[c] = "prune" ->
         /\ Is("list", Defaults[c]) =>
              ToSet(stored[c].of) \subseteq ToSet(Defaults[c].of)
         /\ Is("dict", Defaults[c]) => \* what is named goes and all else stays
              LET named == UNION {Named(written[c][n]) : n \in DOMAIN written[c]} IN
                stored[c].of = WithoutKeys(Defaults[c].of, named)
    [] ReducerOf[c] = "clear" -> written[c] # <<>> => stored[c] = Empty
    [] OTHER -> stored[c] = Defaults[c]

UpdatesAreWhole == \A c \in ChannelNames : KeepsPromise(c)
=============================================================================
