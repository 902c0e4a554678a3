------------------------------- MODULE GiftQueue ------------------------------
(***************************************************************************)
(* The gifts of a live (LiveInteractionBaseFragment).  A gift that arrives *)
(* waits in a list ordered by weight.  A special gift is decoded and then  *)
(* played over the whole screen, with a card; an ordinary one has a card   *)
(* only.  Cards slide in and out in two containers, each with a job that   *)
(* is not null while the container counts as taken.                        *)
(*                                                                         *)
(* Everything runs on the main thread; what comes in any order is the      *)
(* callbacks: of the socket, of the SVGA decoder and player, and of the    *)
(* animators of the cards.  A job stands for the gift on its card, and     *)
(* each gift comes to one card at most.                                    *)
(***************************************************************************)
EXTENDS Naturals, Sequences, SequencesExt

CONSTANTS
    Gift,       \* uuids of gifts
    Special,    \* gifts with a special effect
    Weight,     \* weight of each gift
    None        \* null

ASSUME GiftAssumption == /\ Special \subseteq Gift
                         /\ Weight \in [Gift -> Nat]
                         /\ None \notin Gift

VARIABLES
    isAdded,                \* the fragment is on the screen
    giftList,               \* gifts that wait
    giftUuids,              \* gifts that ever came, in their order
    bigAnimIsPlaying,
    decoding,               \* special gift in the decoder, or None
    playing,                \* special gift that is played, or None
    firstGiftCardViewJob,
    secondGiftCardViewJob,
    cards,                  \* cards[g]: where the card of g slides
    crowded                 \* history: the last popGift() left gifts waiting
                            \* since special gifts' cards held both jobs

slots == <<firstGiftCardViewJob, secondGiftCardViewJob>>
vars == <<isAdded, giftList, giftUuids, bigAnimIsPlaying, decoding, playing,
          slots, cards, crowded>>

TypeOK ==
    /\ isAdded \in BOOLEAN
    /\ giftList \in Seq(Gift)
    /\ giftUuids \in Seq(Gift)
    /\ bigAnimIsPlaying \in BOOLEAN
    /\ decoding \in Special \cup {None}
    /\ playing \in Special \cup {None}
    /\ firstGiftCardViewJob \in Gift \cup {None}
    /\ secondGiftCardViewJob \in Gift \cup {None}
    /\ cards \in [Gift -> {"none", "first", "second"}]
    /\ crowded \in BOOLEAN

Init ==
    /\ isAdded = TRUE
    /\ giftList = <<>>
    /\ giftUuids = <<>>
    /\ bigAnimIsPlaying = FALSE
    /\ decoding = None
    /\ playing = None
    /\ firstGiftCardViewJob = None
    /\ secondGiftCardViewJob = None
    /\ cards = [g \in Gift |-> "none"]
    /\ crowded = FALSE

-----------------------------------------------------------------------------
(* popGift, called with what the caller has made of the fields             *)

(* indexOfFirst: the first ordinary gift of a list, if there is one.       *)
FirstOrdinary(list) ==
    {i \in DOMAIN list : /\ list[i] \notin Special
                         /\ \A j \in 1 .. i - 1 : list[j] \in Special}

IsEffect(list, big) == list # <<>> /\ list[1] \in Special /\ ~big

(* A special gift at the head goes to the decoder.                         *)
PopEffect(list, big, first, second, on) ==
    /\ IsEffect(list, big)
    /\ giftList' = Tail(list)
    /\ bigAnimIsPlaying' = TRUE
    /\ decoding' = list[1]
    /\ firstGiftCardViewJob' = first
    /\ secondGiftCardViewJob' = second
    /\ cards' = on
    /\ crowded' = FALSE

(* Otherwise the first ordinary gift gets a card: in the second container  *)
(* when the first is taken, in the first when nothing big is played.       *)
HasRoom(big, first, second) ==
    \/ first # None /\ second = None
    \/ first = None /\ ~big

PopCard(list, big, first, second, on) ==
    /\ ~IsEffect(list, big)
    /\ HasRoom(big, first, second)
    /\ \E i \in FirstOrdinary(list) :
           /\ giftList' = RemoveAt(list, i)
           /\ IF first # None
              THEN /\ firstGiftCardViewJob' = first
                   /\ secondGiftCardViewJob' = list[i]
                   /\ cards' = [on EXCEPT ![list[i]] = "second"]
              ELSE /\ firstGiftCardViewJob' = list[i]
                   /\ secondGiftCardViewJob' = second
                   /\ cards' = [on EXCEPT ![list[i]] = "first"]
    /\ bigAnimIsPlaying' = big
    /\ crowded' = FALSE
    /\ UNCHANGED decoding

PopNothing(list, big, first, second, on) ==
    /\ ~IsEffect(list, big)
    /\ HasRoom(big, first, second) => FirstOrdinary(list) = {}
    /\ giftList' = list
    /\ bigAnimIsPlaying' = big
    /\ firstGiftCardViewJob' = first
    /\ secondGiftCardViewJob' = second
    /\ cards' = on
    /\ crowded' = (list # <<>> /\ first \in Special /\ second \in Special)
    /\ UNCHANGED decoding

popGift(list, big, first, second, on) ==
    \/ PopEffect(list, big, first, second, on)
    \/ PopCard(list, big, first, second, on)
    \/ PopNothing(list, big, first, second, on)

-----------------------------------------------------------------------------
(* A gift arrives, from the socket or the dialog of this user              *)

BeforeOrBehind(g) ==   \* faulty: before the first that is not heavier
    LET lighter == {i \in DOMAIN giftList : Weight[giftList[i]] <= Weight[g]}
    IN  IF lighter = {} THEN Len(giftList) + 1
        ELSE CHOOSE i \in lighter : \A j \in lighter : i <= j

(* Before the first lighter one, or at the end.                            *)
Place(g) ==
    LET lighter == {i \in DOMAIN giftList : Weight[giftList[i]] < Weight[g]}
    IN  IF lighter = {} THEN Len(giftList) + 1
        ELSE CHOOSE i \in lighter : \A j \in lighter : i <= j

onNewGift(g) ==
    /\ isAdded
    /\ g \notin {giftUuids[i] : i \in DOMAIN giftUuids}
    /\ giftUuids' = Append(giftUuids, g)
    /\ popGift(InsertAt(giftList, Place(g), g), bigAnimIsPlaying,
               firstGiftCardViewJob, secondGiftCardViewJob, cards)
    /\ UNCHANGED <<isAdded, playing>>

-----------------------------------------------------------------------------
(* The decoder, the player, and the cards                                  *)

(* onComplete, toShowGiftAnimation: the card of a special gift takes the   *)
(* second container when only that is free, and otherwise the first, free  *)
(* or not.                                                                 *)
onComplete ==
    /\ isAdded /\ decoding # None
    /\ playing' = decoding
    /\ decoding' = None
    /\ IF firstGiftCardViewJob # None /\ secondGiftCardViewJob = None
       THEN /\ secondGiftCardViewJob' = decoding
            /\ cards' = [cards EXCEPT ![decoding] = "second"]
            /\ UNCHANGED firstGiftCardViewJob
       ELSE /\ firstGiftCardViewJob' = decoding
            /\ cards' = [cards EXCEPT ![decoding] = "first"]
            /\ UNCHANGED secondGiftCardViewJob
    /\ UNCHANGED <<isAdded, giftList, giftUuids, bigAnimIsPlaying, crowded>>

(* The URL is malformed, the file cannot be read or the decoder fails:     *)
(* both the catch clause and onError() are empty.                          *)
onError ==
    /\ isAdded /\ decoding # None
    /\ decoding' = None
    /\ UNCHANGED <<isAdded, giftList, giftUuids, bigAnimIsPlaying, playing,
                   slots, cards, crowded>>

FinishedWithoutPop ==   \* faulty: nobody is told
    /\ isAdded /\ playing # None
    /\ playing' = None
    /\ bigAnimIsPlaying' = FALSE
    /\ UNCHANGED <<isAdded, giftList, giftUuids, decoding, slots, cards, crowded>>

onFinished ==
    /\ isAdded /\ playing # None
    /\ playing' = None
    /\ popGift(giftList, FALSE, firstGiftCardViewJob, secondGiftCardViewJob, cards)
    /\ UNCHANGED <<isAdded, giftUuids>>

CardEndsHeld(g) ==   \* faulty: the job stays
    /\ isAdded /\ cards[g] # "none"
    /\ popGift(giftList, bigAnimIsPlaying, firstGiftCardViewJob,
               secondGiftCardViewJob, [cards EXCEPT ![g] = "none"])
    /\ UNCHANGED <<isAdded, giftUuids, playing>>

(* The animator of the card of g ends.  The job of its container becomes   *)
(* null, whoever holds it by now; only an ordinary gift calls popGift().   *)
CardEnds(g) ==
    LET on == [cards EXCEPT ![g] = "none"]
        first == IF cards[g] = "first" THEN None ELSE firstGiftCardViewJob
        second == IF cards[g] = "second" THEN None ELSE secondGiftCardViewJob
    IN  /\ isAdded /\ cards[g] # "none"
        /\ \/ /\ g \notin Special /\ giftList # <<>>
              /\ popGift(giftList, bigAnimIsPlaying, first, second, on)
           \/ /\ g \in Special \/ giftList = <<>>
              /\ firstGiftCardViewJob' = first
              /\ secondGiftCardViewJob' = second
              /\ cards' = on
              /\ UNCHANGED <<giftList, bigAnimIsPlaying, decoding, crowded>>
        /\ UNCHANGED <<isAdded, giftUuids, playing>>

(* onDestroy: the callbacks are taken away.                                *)
onDestroy ==
    /\ isAdded
    /\ isAdded' = FALSE
    /\ UNCHANGED <<giftList, giftUuids, bigAnimIsPlaying, decoding, playing,
                   slots, cards, crowded>>

-----------------------------------------------------------------------------
Show == onComplete \/ onError \/ onFinished \/ \E g \in Gift : CardEnds(g)

Next == Show \/ onDestroy \/ \E g \in Gift : onNewGift(g)

Spec == Init /\ [][Next]_vars

(* The decoder answers in one of its ways, animations and cards end.       *)
FairSpec ==
    /\ Spec
    /\ WF_vars(onComplete \/ onError)
    /\ WF_vars(onFinished)
    /\ \A g \in Gift : WF_vars(CardEnds(g))

-----------------------------------------------------------------------------
(* Properties                                                              *)

(* A special gift is decoded or played.                                    *)
EffectUnderWay == decoding # None \/ playing # None

(* One could not be decoded: bigAnimIsPlaying is never reset.              *)
Broken == bigAnimIsPlaying /\ ~EffectUnderWay

OrdinaryCard == \E g \in Gift \ Special : cards[g] # "none"

(* While gifts wait, something is on the screen whose end calls popGift(). *)
(* Not so when a decoder has failed, or special gifts' cards held both     *)
(* containers at the last call.                                            *)
Attended ==
    giftList # <<>> => EffectUnderWay \/ OrdinaryCard \/ Broken \/ crowded

(* A container does not count as taken for a card that is gone, although   *)
(* cards overwrite each other's jobs and clear whatever job they find.     *)
TakenByCard ==
    /\ firstGiftCardViewJob # None => cards[firstGiftCardViewJob] = "first"
    /\ secondGiftCardViewJob # None => cards[secondGiftCardViewJob] = "second"

(* One special gift at a time: none goes to the decoder or is played while *)
(* another is, since the view can play only one.                           *)
OneEffect ==
    /\ decoding = None \/ playing = None
    /\ EffectUnderWay => bigAnimIsPlaying

PlaceOf(g, s) == CHOOSE i \in DOMAIN s : s[i] = g

(* The heavier gift waits before the lighter one, and of two of the same   *)
(* weight the one that came first, whatever was taken out in between.      *)
ByWeight ==
    \A i, j \in DOMAIN giftList : i < j =>
        LET g == giftList[i]
            h == giftList[j]
        IN  \/ Weight[g] > Weight[h]
            \/ /\ Weight[g] = Weight[h]
               /\ PlaceOf(g, giftUuids) < PlaceOf(h, giftUuids)

Waits(g) == \E i \in DOMAIN giftList : giftList[i] = g

(* Every gift gets its turn, unless the screen is left, a decoder fails,   *)
(* or special gifts' cards have held both containers.                      *)
GiftComes ==
    \A g \in Gift : Waits(g) ~> (~Waits(g) \/ ~isAdded \/ Broken \/ crowded)
=============================================================================
