------------------------------ MODULE MCCredits ------------------------------
\* Two users, each the seller of the other, and two workers.
EXTENDS Credits

CONSTANTS u1, u2, s1, s2

MCUsers == {u1, u2}
MCVipFree == {u1}
MCSlots == {s1, s2}
MCAsks == {<<kind, u1, u1>> : kind \in Kinds \ {"buy"}}
          \cup {<<"consume", u2, u2>>, <<"buy", u1, u2>>, <<"buy", u2, u1>>}
=============================================================================
