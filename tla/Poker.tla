------------------------------- MODULE Poker -------------------------------
(***************************************************************************)
(* The cards of bullfight/poker.lua: decks, hands of the bull fight, hands *)
(* of three and five cards, and hands of thirteen, with their special      *)
(* types (GetSPType and its variants) and their arrangements in three,     *)
(* five and five cards (GetTopNPokerType).  A hand is a sequence of cards, *)
(* which the functions of the source sort and reorder in place; here they  *)
(* return the new order.  The model deals a hand card by card, and a hand  *)
(* of thirteen as two runs of five cards and one of three.                 *)
(***************************************************************************)
EXTENDS Common, Sequences, FiniteSets
LOCAL INSTANCE SequencesExt
LOCAL INSTANCE FiniteSetsExt
LOCAL INSTANCE Functions
LOCAL INSTANCE TLC

CONSTANTS
    Decks,          \* the parts of the deck that hands are dealt from
    MatchCards,     \* the part that the hands of a player's matches come from
    Low,            \* the lowest points of the runs of five; 1 is an ace below a two
    Third,          \* the lowest points of the run of three
    Suits           \* the suits of the three parts

VARIABLES
    deck, hand,
    best,           \* self.besttype of agent.lua, its digits
    played,         \* history: the hands of the matches played
    parts, cards    \* the runs of a hand of thirteen, and its cards

pokerVars == <<deck, hand, best, played, parts, cards>>

Card(p, s) == [point |-> p, suit |-> s]

\* InitPoker, and the two jokers that InitPoker of bfgame.lua takes out again.
FullDeck == {Card(p, s) : p \in 2 .. 14, s \in 1 .. 4}

PokerInit ==
  /\ deck \in Decks /\ deck \subseteq FullDeck /\ hand = <<>>
  /\ best = <<>> /\ played = {} /\ parts = <<>> /\ cards = <<>>

\* Shuffle and PopCards: any card that is left in the deck.
Deal ==
  /\ Use("card")
  /\ \E c \in deck : hand' = Append(hand, c) /\ deck' = deck \ {c}
  /\ UNCHANGED <<best, played, parts, cards>>

Points(s) == {s[i].point : i \in DOMAIN s}
Count(s, p) == Cardinality({i \in DOMAIN s : s[i].point = p})

ComparePointAndSuit(a, b) == a.point * 10 + a.suit > b.point * 10 + b.suit
SortCards(s) == SortSeq(s, ComparePointAndSuit)

DisCard(s, c) == IF c \in Range(s) THEN RemoveAt(s, Min({i \in DOMAIN s : s[i] = c})) ELSE s
DisCards(s, cs) == FoldLeft(DisCard, s, cs)

\* HasCards: both are sorted, and each card is looked for behind the last.
HasCards(s, cs) ==
  LET a == SortCards(s)
      b == SortCards(cs)
      pos[k \in 0 .. Len(b)] ==
        IF k = 0 THEN 1
        ELSE LET at == {i \in pos[k - 1] .. Len(a) : a[i] = b[k]} IN IF at = {} THEN Len(a) + 2 ELSE Min(at) + 1
  IN  Len(s) >= Len(cs) /\ pos[Len(b)] <= Len(a) + 1
-----------------------------------------------------------------------------
\* GetBFType.  bfoption: three cards, then the two that count.
BFOption == <<<<1, 2, 3, 4, 5>>, <<1, 2, 4, 3, 5>>, <<1, 2, 5, 3, 4>>, <<1, 3, 4, 2, 5>>, <<1, 3, 5, 2, 4>>,
              <<1, 4, 5, 2, 3>>, <<2, 3, 4, 1, 5>>, <<2, 4, 5, 1, 3>>, <<2, 3, 5, 1, 4>>, <<3, 4, 5, 1, 2>>>>

BullPoint(c) == IF c.point = 14 THEN 1 ELSE IF c.point > 10 THEN 10 ELSE c.point
Adds(c)      == IF c.point = 14 THEN 1 ELSE c.point

\* The first of the options whose first three cards make tens, or 0.

BullOption(s) ==
  LET ok == {k \in 1 .. 10 : (BullPoint(s[BFOption[k][1]]) + BullPoint(s[BFOption[k][2]]) + BullPoint(s[BFOption[k][3]])) % 10 = 0}
  IN  IF ok = {} THEN 0 ELSE Min(ok)

\* The type, and the cards in the order they are shown.
GetBFType(s) ==
  LET o    == BullOption(s)
      gold == Cardinality({i \in DOMAIN s : s[i].point \in 11 .. 13})
      tens == Cardinality({i \in DOMAIN s : s[i].point \in 10 .. 13})
      bull == (BullPoint(s[BFOption[o][4]]) + BullPoint(s[BFOption[o][5]])) % 10
      Shown(t, c) == [type |-> t, cards |-> c]
  IN  IF SumFunction([i \in DOMAIN s |-> Adds(s[i])]) < 10 THEN Shown(14, s)
      ELSE IF \E p \in Points(s) : Count(s, p) = 4 THEN Shown(13, s)
      ELSE IF gold = 5 THEN Shown(12, s)
      ELSE IF tens = 5 THEN Shown(11, s)
      ELSE IF o = 0 THEN Shown(0, s)
      ELSE Shown(IF bull = 0 THEN 10 ELSE bull, [i \in 1 .. 5 |-> s[BFOption[o][i]]])

\* BFCompare: an ace is the lowest card.
BFRank(c) == (c.point % 14) * 10 + c.suit
BFHigher(a, b) == BFRank(a) > BFRank(b)

BFCompare(a, b) ==
  LET k == IF a.type = 13 THEN 2 ELSE 1
  IN  IF a.type # b.type THEN a.type > b.type
      ELSE BFHigher(SortSeq(a.cards, BFHigher)[k], SortSeq(b.cards, BFHigher)[k])
-----------------------------------------------------------------------------
(* The best hand a player has had, kept by the agent and in the database    *)
(* as a number: two digits for each card and for the type.                 *)

\* Mutant: a number below ten gets one digit.
OneDigit(n) == IF n < 10 THEN <<n>> ELSE <<n \div 10, n % 10>>
TwoDigits(n) == <<n \div 10, n % 10>>

Tonum(r) ==
  FoldLeft(LAMBDA num, c : num \o TwoDigits((c.point - 2) * 4 + c.suit), <<>>, r.cards) \o TwoDigits(r.type)

\* The two digits of a card, counted from the end.
Digit(num, k) == IF k < Len(num) THEN num[Len(num) - k] ELSE 0
TwoOf(num, j) == 10 * Digit(num, 13 - 2 * j) + Digit(num, 12 - 2 * j)

\* The hand, whose type is found again; -1 when there is none.
Tocards(number) ==
  LET none == TwoOf(number, 1) = 0
      num == IF none THEN <<>> ELSE number
      Suit(j) == IF TwoOf(num, j) % 4 = 0 THEN 4 ELSE TwoOf(num, j) % 4
      r == GetBFType([j \in 1 .. 5 |-> Card((TwoOf(num, j) - Suit(j)) \div 4 + 2, Suit(j))])
  IN  IF none THEN [type |-> -1, cards |-> r.cards] ELSE r

\* PlayOneMatch, with the cards of the match: a better hand is kept.  The
\* comparison of hands of one type has sorted the cards.
PlayOneMatch ==
  /\ Use("match")
  /\ \E five \in kSubset(5, MatchCards) :
       \E now \in {GetBFType(SetToSeq(five))}, old \in {Tocards(best)} :
         /\ best' = IF ~BFCompare(now, old) THEN best
                    ELSE IF now.type = old.type THEN Tonum([now EXCEPT !.cards = SortSeq(now.cards, BFHigher)])
                    ELSE Tonum(now)
         /\ played' = played \cup {five}
  /\ UNCHANGED <<deck, hand, parts, cards>>
-----------------------------------------------------------------------------
\* The types of five and three cards.
PT_SINGLE == 1
PT_PAIR == 2
PT_DOUBLE_PAIR == 3
PT_THREE == 4
PT_STRAIGHT == 5
PT_FLUSH == 6
PT_FULL_HOUSE == 7
PT_FOUR == 8
PT_STRAIGHT_FLUSH == 9
PT_FIVE == 10

IsPTFlush(s) == \A i \in DOMAIN s : s[i].suit = s[1].suit

\* GetDifferPointNum, of sorted cards.
GetDifferPointNum(s) == 1 + Cardinality({i \in 2 .. Len(s) : s[i].point # s[i - 1].point})
GetMostPointNum(s)   == Max({Count(s, p) : p \in Points(s)})

\* An ace is also below a two.
IsPTStraight(cs) ==
  LET s == SortCards(cs)
      n == Len(s)
  IN  /\ n = GetDifferPointNum(s)
      /\ IF s[1].point = 14 /\ s[n].point = 2 THEN s[2].point - s[n].point = n - 2
         ELSE s[1].point - s[n].point = n - 1

GetFiveCardsType(cs) ==
  LET s      == SortCards(cs)
      differ == GetDifferPointNum(s)
      most   == GetMostPointNum(s)
  IN  IF differ = 1 THEN PT_FIVE
      ELSE IF differ = 2 THEN IF most = 4 THEN PT_FOUR ELSE PT_FULL_HOUSE
      ELSE IF IsPTFlush(s) THEN IF IsPTStraight(s) THEN PT_STRAIGHT_FLUSH ELSE PT_FLUSH
      ELSE IF IsPTStraight(s) THEN PT_STRAIGHT
      ELSE IF differ = 3 THEN IF most = 3 THEN PT_THREE ELSE PT_DOUBLE_PAIR
      ELSE IF differ = 4 THEN PT_PAIR
      ELSE PT_SINGLE

GetThreeCardsType(cs) ==
  CASE GetDifferPointNum(SortCards(cs)) = 1 -> PT_THREE
    [] GetDifferPointNum(SortCards(cs)) = 2 -> PT_PAIR
    [] OTHER                                   -> PT_SINGLE

\* The order of the cards for the comparison: the cards that make the type first.
Pick(s, order) == [i \in DOMAIN order |-> s[order[i]]]

SortForCompareFive(cs, t) ==
  LET s == SortCards(cs)
      k == Min({i \in 2 .. 5 : s[i].point = s[i - 1].point})
  IN  CASE t = PT_PAIR -> <<s[k], s[k - 1]>> \o SelectSeq(s, LAMBDA c : c.point # s[k].point)
        [] t = PT_DOUBLE_PAIR -> IF s[1].point # s[2].point THEN Pick(s, <<2, 3, 4, 5, 1>>)
                                 ELSE IF s[4].point = s[5].point THEN Pick(s, <<1, 2, 4, 5, 3>>) ELSE s
        [] t = PT_THREE -> IF s[2].point = s[4].point THEN Pick(s, <<2, 3, 4, 1, 5>>)
                           ELSE IF s[3].point = s[5].point THEN Pick(s, <<3, 4, 5, 1, 2>>) ELSE s
        [] t = PT_FULL_HOUSE -> IF s[3].point = s[4].point THEN Pick(s, <<3, 4, 5, 1, 2>>) ELSE s
        [] t = PT_FOUR -> IF s[1].point # s[2].point THEN Pick(s, <<2, 3, 4, 5, 1>>) ELSE s
        [] OTHER -> s

SortForCompareThree(cs, t) ==
  LET s == SortCards(cs)
  IN  IF t = PT_PAIR /\ s[2].point = s[3].point THEN Pick(s, <<2, 3, 1>>) ELSE s

SortForCompare(s, t) == IF Len(s) = 5 THEN SortForCompareFive(s, t) ELSE SortForCompareThree(s, t)

\* 1, 0 or -1: by the types, then by the points.
CompareCards(cards1, t1, cards2, t2) ==
  LET a == SortForCompare(cards1, t1)
      b == SortForCompare(cards2, t2)
      d == {i \in DOMAIN a : a[i].point # b[i].point}
  IN  IF t1 # t2 THEN IF t1 > t2 THEN 1 ELSE -1
      ELSE IF d = {} THEN 0
      ELSE IF a[Min(d)].point > b[Min(d)].point THEN 1 ELSE -1
-----------------------------------------------------------------------------
(* Hands of thirteen cards                                                 *)

Run(p, n, s) == [i \in 1 .. n |-> Card(IF p + i - 1 = 1 THEN 14 ELSE p + i - 1, s)]

\* A part is dealt.
Part ==
  /\ Use("part") /\ Len(parts) < 3
  /\ \E p \in IF Len(parts) < 2 THEN Low ELSE Third : \E s \in Suits[Len(parts) + 1] :
       \E part \in {Run(p, IF Len(parts) < 2 THEN 5 ELSE 3, s)} :
         parts' = Append(parts, part) /\ cards' = SortCards(cards \o part)
  /\ UNCHANGED <<deck, hand, best, played>>

PokerNext == Deal \/ PlayOneMatch \/ Part

\* AdjustCards and DevideCards: the cards of a suit, how many of a point, and
\* the points there are v cards of.
OfSuit(s, i)  == SelectSeq(s, LAMBDA c : c.suit = i)
OfPoint(s, p) == Reverse(SelectSeq(SortCards(s), LAMBDA c : c.point = p))
Devide(s, v)  == {p \in Points(s) : Count(s, p) = v}
Groups(s, v)  == [i \in 1 .. Cardinality(Devide(s, v)) |-> OfPoint(s, SetToSortSeq(Devide(s, v), <)[i])]

Typed(c, t) == [cards |-> c, type |-> t]

\* GetTypeForPoint: the cards of the best type that equal points make.
GetTypeForPoint(s) ==
  LET five  == {p \in Points(s) : Count(s, p) >= 5}
      two   == Groups(s, 2)
      three == Devide(s, 3)
  IN  IF five # {} THEN {Typed(SubSeq(OfPoint(s, p), 1, 5), PT_FIVE) : p \in five}
      ELSE IF Devide(s, 4) # {} THEN {Typed(OfPoint(s, p), PT_FOUR) : p \in Devide(s, 4)}
      ELSE IF three # {} /\ two # <<>>
           THEN {Typed(OfPoint(s, p) \o two[i], PT_FULL_HOUSE) : p \in three, i \in DOMAIN two}
      ELSE IF Cardinality(three) >= 2
           THEN {Typed(OfPoint(s, x[1]) \o SubSeq(OfPoint(s, x[2]), 1, 2), PT_FULL_HOUSE) : x \in {y \in three \X three : y[1] # y[2]}}
      ELSE IF three # {} THEN {Typed(OfPoint(s, p), PT_THREE) : p \in three}
      ELSE IF Len(two) = 1 THEN {Typed(two[1], PT_PAIR)}
      ELSE IF Len(two) > 1 THEN {Typed(two[Len(two)] \o two[1], PT_DOUBLE_PAIR)}
      ELSE {Typed(OfPoint(s, Max(Points(s))), PT_SINGLE)}

\* GetTypeForSuit and FlushPerm: any five cards of a suit.
GetTypeForSuit(s) ==
  UNION {{Typed([i \in 1 .. 5 |-> OfSuit(s, k)[SetToSortSeq(x, <)[i]]],
                IF IsPTStraight([i \in 1 .. 5 |-> OfSuit(s, k)[SetToSortSeq(x, <)[i]]]) THEN PT_STRAIGHT_FLUSH ELSE PT_FLUSH)
          : x \in kSubset(5, DOMAIN OfSuit(s, k))} : k \in {j \in 1 .. 4 : Len(OfSuit(s, j)) >= 5}}

\* GetStraight and StraightPerm: five points in a row in all their suits,
\* and an ace to a five in the first suit of each point.
GetStraight(s) ==
  LET Suit(p)  == {s[i].suit : i \in {j \in DOMAIN s : s[j].point = p}}
      starts   == {p \in 2 .. 10 : p .. p + 4 \subseteq Points(s)}
      Straight(c) == Typed(c, IF IsPTFlush(c) THEN PT_STRAIGHT_FLUSH ELSE PT_STRAIGHT)
      lowest   == <<2, 3, 4, 5, 14>>
  IN  UNION {{Straight([i \in 1 .. 5 |-> Card(p + i - 1, f[i])])
              : f \in {g \in [1 .. 5 -> {s[i].suit : i \in DOMAIN s}] : \A i \in 1 .. 5 : g[i] \in Suit(p + i - 1)}} : p \in starts}
      \cup IF Range(lowest) \subseteq Points(s)
           THEN {Straight([i \in 1 .. 5 |-> Card(lowest[i], Min(Suit(lowest[i])))])} ELSE {}

GetFiveCards(s) == GetTypeForPoint(s) \cup GetTypeForSuit(s) \cup GetStraight(s)

\* GetThreeCards: three of a point, a pair, or nothing yet.
GetThreeCards(s) ==
  LET most == {v \in 3 .. 8 : Devide(s, v) # {}}
  IN  IF most # {} THEN Typed(SubSeq(OfPoint(s, Max(Devide(s, Min(most)))), 1, 3), PT_THREE)
      ELSE IF Devide(s, 2) # {} THEN Typed(OfPoint(s, Min(Devide(s, 2))), PT_PAIR)
      ELSE Typed(<<>>, PT_SINGLE)

\* SupplyCards: the next cards that are left.
Supply(s, c, n) == c \o SubSeq(s, 1, n - Len(c))

\* One arrangement, as GetTopNPokerType makes it.
Arrange(s, third, second) ==
  LET rest  == DisCards(DisCards(s, third.cards), second.cards)
      first == GetThreeCards(rest)
      r1    == DisCards(rest, first.cards)
      r2    == SubSeq(r1, 4 - Len(first.cards), Len(r1))
      r3    == SubSeq(r2, 6 - Len(second.cards), Len(r2))
  IN  [first  |-> Typed(Supply(r1, first.cards, 3), first.type),
       second |-> Typed(Supply(r2, second.cards, 5), second.type),
       third  |-> Typed(Supply(r3, third.cards, 5), third.type)]

\* IsRightCardsType.
IsRightCardsType(a) ==
  /\ a.first.type = GetThreeCardsType(a.first.cards)
  /\ a.second.type = GetFiveCardsType(a.second.cards)
  /\ a.third.type = GetFiveCardsType(a.third.cards)
  /\ CompareCards(a.third.cards, a.third.type, a.second.cards, a.second.type) >= 0
  /\ CompareCards(SubSeq(SortForCompareFive(a.second.cards, a.second.type), 1, 3), a.second.type,
                  a.first.cards, a.first.type) >= 0

\* The arrangements that are sorted and returned.
RightTypes(s) ==
  {a \in UNION {{Arrange(s, t, x) : x \in {y \in GetFiveCards(DisCards(s, t.cards)) : t.type >= y.type}} : t \in GetFiveCards(s)} :
     IsRightCardsType(a)}

\* GetScore and SortCardTypes.
GetScore(t, place) ==
  CASE place = 1 -> IF t = PT_THREE THEN 3 ELSE 1
    [] place = 2 -> CASE t = PT_FULL_HOUSE -> 2 [] t = PT_FOUR -> 7 [] t = PT_STRAIGHT_FLUSH -> 9 [] t = PT_FIVE -> 11 [] OTHER -> 1
    [] place = 3 -> CASE t = PT_FOUR -> 4 [] t = PT_STRAIGHT_FLUSH -> 5 [] t = PT_FIVE -> 6 [] OTHER -> 1

Score(a) == a.first.type + a.second.type + a.third.type
            + GetScore(a.first.type, 1) + GetScore(a.second.type, 2) + GetScore(a.third.type, 3)

\* The first arrangement that GetTopNPokerType returns may be any of the best.
Rank(a) == Score(a) * 20 + a.third.type
Top(right) == {a \in right : Rank(a) = Max({Rank(b) : b \in right})}
-----------------------------------------------------------------------------
\* GetStraightOfFive: one card of each point, and the ace again at the end.
GetStraightOfFive(s) ==
  LET one  == SelectSeq([i \in DOMAIN SortCards(s) |-> <<i, SortCards(s)[i]>>],
                        LAMBDA x : x[1] = 1 \/ SortCards(s)[x[1] - 1].point # x[2].point)
      c1   == [i \in DOMAIN one |-> one[i][2]]
      c2   == IF c1[1].point = 14 /\ c1[Len(c1)].point = 2 THEN Append(c1, c1[1]) ELSE c1
  IN  {c \in {SubSeq(c2, i, i + 4) : i \in 1 .. Len(c2) - 4} : IsPTStraight(c)}

\* IsSPThreeStaight: what it may return.
ThreeStraights(s) ==
  UNION {{a \o b \o DisCards(DisCards(s, a), b)
          : b \in {x \in GetStraightOfFive(DisCards(s, a)) : IsPTStraight(DisCards(DisCards(s, a), x))}} : a \in GetStraightOfFive(s)}

IsSPStraightFlush(s) ==
  \E k \in 1 .. 4 : Len(OfSuit(s, k)) >= 13 /\ Points(OfSuit(s, k)) = 2 .. 14

IsSPStraight(s) == Points(s) = 2 .. 14

IsSPAllBig(s)   == \A p \in Points(s) : p >= 8
IsSPAllSmall(s) == \A p \in Points(s) : p <= 8
IsSPAllKing(s)  == \A p \in Points(s) : p >= 11

\* IsSPThreeFlush: the numbers of cards of the suits.
IsSPThreeFlush(s) == \A k \in 1 .. 4 : Len(OfSuit(s, k)) \in {0, 3, 5, 8, 10}

\* IsSPThreeStraightFlush: eight or ten cards of a suit are two runs, found
\* in the cards of the suit as they lie, the ace in front again when there is a two.
TwoRuns(c) ==
  LET a == SortSeq(c, LAMBDA x, y : x.point < y.point)
      d == IF a[1].point = 2 /\ a[Len(a)].point = 14 THEN <<a[Len(a)]>> \o a ELSE a
  IN  \E i \in 1 .. Len(d) - 4 : /\ IsPTStraight(SubSeq(d, i, i + 4))
                                 /\ IsPTStraight(DisCards(c, SubSeq(d, i, i + 4)))

IsSPThreeStraightFlush(s) ==
  \A k \in 1 .. 4 :
    LET c == OfSuit(s, k)
    IN  \/ Len(c) = 0
        \/ Len(c) \in {3, 5} /\ IsPTStraight(c)
        \/ Len(c) \in {8, 10} /\ TwoRuns(c)

\* GetSPType.
GetSPType(s) ==
  LET num(v)  == Cardinality(Devide(s, v))
      threes  == num(3)
      pairs   == num(2) + num(3) + 2 * num(4)
  IN  CASE IsSPStraightFlush(s) -> 14
        [] ~IsSPStraightFlush(s) /\ IsSPStraight(s) -> 13
        [] OTHER ->
           IF num(5) = 2 /\ num(3) = 1 THEN 12
           ELSE IF IsSPAllKing(s) THEN 11
           ELSE IF IsSPThreeStraightFlush(s) THEN 10
           ELSE IF num(4) = 3 THEN 9
           ELSE IF IsSPAllBig(s) THEN 8
           ELSE IF IsSPAllSmall(s) THEN 7
           ELSE IF {s[i].suit : i \in DOMAIN s} \subseteq {2, 4} \/ {s[i].suit : i \in DOMAIN s} \subseteq {1, 3} THEN 6
           ELSE IF num(3) = 4 THEN 5
           ELSE IF pairs - threes = 5 /\ threes = 1 THEN 4
           ELSE IF pairs = 6 THEN 3
           ELSE IF ThreeStraights(s) # {} THEN 2
           ELSE IF IsSPThreeFlush(s) THEN 1
           ELSE 0

\* GetSPTypeForThreeMore; with five players also two fives and a three (IsSPTwoFiveAndThree).
IsSPTwoFiveAndThree(s) ==
  LET fives  == {p \in Points(s) : Count(s, p) \in 5 .. 8}
      threes == {p \in Points(s) : Count(s, p) \in 3 .. 4}
  IN  /\ Cardinality(fives) >= 2
      /\ threes # {} \/ Cardinality(fives) >= 3 \/ \E p \in fives : Count(s, p) = 8

GetSPTypeForThreeMore(s, five) ==
  IF IsSPStraightFlush(s) THEN 14 ELSE IF IsSPStraight(s) THEN 13
  ELSE IF five /\ IsSPTwoFiveAndThree(s) THEN 12 ELSE 0
-----------------------------------------------------------------------------
\* Whether three of the cards make tens.
Tens(s) == {x \in SUBSET (1 .. 5) : Cardinality(x) = 3 /\ SumFunction([i \in x |-> BullPoint(s[i])]) % 10 = 0}

\* The type of a hand of the bull fight does not depend on the order of the
\* cards nor on which three of them are taken, and the cards shown are the
\* cards of the hand with three that make tens in front (poker.lua,
\* GetBFType: it stops at the first option; SomeOneChoicePoker of bfgame.lua
\* accepts the cards shown with HasCards).
BullTypeAgrees ==
  Len(hand) = 5 =>
    LET r    == GetBFType(hand)
        bull == SumFunction([i \in 1 .. 5 |-> BullPoint(hand[i])]) % 10
    IN  /\ r.type \in 0 .. 10 => r.type = IF Tens(hand) = {} THEN 0 ELSE IF bull = 0 THEN 10 ELSE bull
        /\ r.type \in 1 .. 10 => {1, 2, 3} \in Tens(r.cards)
        /\ GetBFType(SortCards(hand)).type = r.type
        /\ HasCards(hand, r.cards)
        /\ ~HasCards(hand, [r.cards EXCEPT ![1] = r.cards[2]])

\* Of two hands of one deck exactly one wins, whatever their types (poker.lua,
\* BFCompare; GetCompareResult of bfgame.lua asks only whether the player
\* beats the banker); the functions sort the cards, so any order will do.
OneHandWins ==
  Len(hand) = 5 /\ SortCards(hand) = hand => \A other \in kSubset(5, deck) :
    LET a == GetBFType(hand)
        b == GetBFType(SetToSeq(other))
    IN  BFCompare(a, b) # BFCompare(b, a)

\* The number that is kept is one of the hands played, and no hand played
\* beats it (agent.lua, PlayOneMatch, Tonum, Tocards).
BestKept ==
  LET kept == Tocards(best)
  IN  /\ played # {} => Range(kept.cards) \in played
      /\ \A five \in played : ~BFCompare(GetBFType(SetToSeq(five)), kept)

\* A point counts for more the more often the hand has it, then by itself.
Weight(s, p) == Count(s, p) * 20 + p
Weights(s) == SortSeq([i \in DOMAIN s |-> Weight(s, s[i].point)], >)

\* The types of five cards are those of the game, and hands of one type
\* compare by the points that make the type first, then by the others
\* (poker.lua, GetFiveCardsType, SortForCompareFive, CompareCards).
FiveCardsCompare ==
  Len(hand) = 5 /\ SortCards(hand) = hand =>
    LET t == GetFiveCardsType(hand)
        s == SortForCompareFive(hand, t)
        n == Cardinality(Points(hand))
        low == Points(hand) = {14, 2, 3, 4, 5}
        run == n = 5 /\ (Max(Points(hand)) - Min(Points(hand)) = 4 \/ low)
        flush == Cardinality({hand[i].suit : i \in 1 .. 5}) = 1
    IN  /\ [i \in 1 .. 5 |-> Weight(hand, s[i].point)] = Weights(hand)
        /\ Range(s) = Range(hand)
        /\ (t = PT_STRAIGHT_FLUSH) <=> (run /\ flush)
        /\ (t = PT_STRAIGHT) <=> (run /\ ~flush)
        /\ (t = PT_FLUSH) <=> (flush /\ ~run)
        /\ (t \in {PT_FOUR, PT_FULL_HOUSE}) <=> (n = 2)
        /\ (t \in {PT_THREE, PT_FOUR}) => \E p \in Points(hand) : Count(hand, p) = IF t = PT_FOUR THEN 4 ELSE 3
        /\ (t = PT_PAIR) <=> (n = 4)

Dealt == Len(cards) = 13
IsRun(c) == IsPTStraight(c)

\* A hand of three runs is found to be one, whichever way its cards can be
\* taken apart, and what is returned is the hand in three runs; when each
\* run has its own suit the higher type is found too (poker.lua,
\* IsSPThreeStaight, IsSPThreeStraightFlush, GetSPType).
RunsFound ==
  Dealt => /\ ThreeStraights(cards) # {}
           /\ \A r \in ThreeStraights(cards) : /\ IsRun(SubSeq(r, 1, 5)) /\ IsRun(SubSeq(r, 6, 10)) /\ IsRun(SubSeq(r, 11, 13))
                                               /\ SortCards(r) = cards
           /\ IsSPThreeStraightFlush(cards)
           /\ GetSPType(cards) >= 10
           /\ GetSPTypeForThreeMore(cards, TRUE) = IF Points(cards) = 2 .. 14 THEN 13 ELSE 0

\* Every arrangement has all thirteen cards and no part of it is better than
\* the one behind, and the best scores what the runs of the hand score
\* (poker.lua, GetTopNPokerType, SupplyCards, IsRightCardsType).
ArrangementsRight ==
  Dealt => \E right \in {RightTypes(cards)} :
           /\ \A a \in right : /\ SortCards(a.first.cards \o a.second.cards \o a.third.cards) = cards
                               /\ a.third.type >= a.second.type /\ a.second.type >= a.first.type
           /\ \E a \in Top(right) : Score(a) >= Score([first  |-> Typed(parts[3], PT_SINGLE),
                                                     second |-> Typed(parts[2], PT_STRAIGHT_FLUSH),
                                                     third  |-> Typed(parts[1], PT_STRAIGHT_FLUSH)])
=============================================================================
