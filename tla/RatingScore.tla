----------------------------- MODULE RatingScore -----------------------------
(***************************************************************************)
(* The composite score of a participant, from what ComponentsForUsers      *)
(* counts.  Scores are in tenths of a star; the code's weights and caps    *)
(* are brought to the denominator 7300 * chats, and the arithmetic is      *)
(* exact, where the code rounds binary fractions.                          *)
(***************************************************************************)
EXTENDS Naturals, FiniteSets

capDeals == 20
capTenureDays == 365
capChatMessages == 50

Capped(n, cap) == IF n < cap THEN n ELSE cap

\* No review, no deal and no message: the code returns nil.
NoSignal(c) == c.reviewCount = 0 /\ c.completedDeals = 0 /\ c.chatMessages = 0

\* weighted * 7300 * chats: deals weigh 0.2, tenure, messages and the share
\* of chats in which both sides wrote 0.1 each, the reviews 0.5.
Weighted(c, chats) ==
    chats * (365 * Capped(c.completedDeals, capDeals)
             + 10 * Capped(c.daysOnPlatform, capTenureDays)
             + 73 * Capped(c.chatMessages, capChatMessages)
             + (IF c.reviewCount > 0 THEN 365 * c.reviewAvg ELSE 0))
    + (IF c.chatsTotal > 0 THEN 3650 * c.chatsActive ELSE 0)

\* Without reviews the other components share their weight.
compositeFromComponents(c) ==
    LET chats == IF c.chatsTotal > 0 THEN c.chatsTotal ELSE 1
        unit == (IF c.reviewCount > 0 THEN 730 ELSE 365) * chats
    IN (2 * Weighted(c, chats) + unit) \div (2 * unit)

-----------------------------------------------------------------------------
\* What ComponentsForUsers can count; an average is one of reviews.
Components ==
    {c \in [reviewCount : Nat, reviewAvg : 0..50, completedDeals : Nat,
            daysOnPlatform : Nat, chatMessages : Nat, chatsTotal : Nat,
            chatsActive : Nat] :
        /\ c.chatsActive <= c.chatsTotal
        /\ c.reviewCount = 0 => c.reviewAvg = 0}

\* The score stays between no and five stars, far past the caps too.
Bounded(c) == compositeFromComponents(c) \in 0..50

\* Reviews are an average, so the reviews move the score towards themselves:
\* it lands between the score without reviews and their average.
ReviewsPull(c) ==
    LET before == compositeFromComponents([c EXCEPT !.reviewCount = 0, !.reviewAvg = 0])
        after == compositeFromComponents(c)
    IN c.reviewCount > 0 =>
          \/ before <= after /\ after <= c.reviewAvg
          \/ c.reviewAvg <= after /\ after <= before

\* Deals, messages and answered chats never cost a participant anything.
WorkHelps(c) ==
    /\ compositeFromComponents(c) <=
         compositeFromComponents([c EXCEPT !.completedDeals = @ + 1])
    /\ compositeFromComponents(c) <=
         compositeFromComponents([c EXCEPT !.chatMessages = @ + 1])
    /\ c.chatsActive < c.chatsTotal =>
         compositeFromComponents(c) <=
           compositeFromComponents([c EXCEPT !.chatsActive = @ + 1])
=============================================================================
