----------------------------- MODULE MCStartup -----------------------------
(* Small disks for Startup: words of five bits, so that the indexes of     *)
(* clusters above 31 and the sectors of most clusters need both words.     *)
EXTENDS Startup

R(name, first) == [name |-> name, cluster |-> first]

MCEnd == (Word \div 16) * Word - 1

Table(root, links) ==
  [c \in 0 .. 47 |->
     IF c \in DOMAIN links THEN links[c]
     ELSE IF \E i \in 1 .. Len(root) - 1 : root[i] = c
     THEN root[2]
     ELSE IF c = root[Len(root)] THEN MCEnd ELSE 0]

Links(a, b, c) == [x \in {a, b, c} |-> CASE x = a -> b [] x = b -> c [] OTHER -> MCEnd]

(* The kernel has as many clusters as there are slots; it has one, and its *)
(* record is in the root's second cluster; there is none, with and without *)
(* an end mark; its chain is a cycle; its chain ends with another mark.     *)
MCDisks ==
  {[root |-> <<2>>, fat |-> Table(<<2>>, Links(5, 34, 11)),
    dir |-> [c \in {2} |-> <<R("other", 0), R("kernel", 5)>>]],
   [root |-> <<2, 40>>, fat |-> Table(<<2, 40>>, [c \in {33} |-> MCEnd]),
    dir |-> [c \in {2, 40} |-> IF c = 2 THEN <<R("other", 3), R("other", 5)>>
                               ELSE <<R("kernel", 33), R("kernel", 7)>>]],
   [root |-> <<2>>, fat |-> Table(<<2>>, <<>>),
    dir |-> [c \in {2} |-> <<R("end", 0), R("kernel", 5)>>]],
   [root |-> <<2, 9>>, fat |-> Table(<<2, 9>>, <<>>),
    dir |-> [c \in {2, 9} |-> <<R("other", 3), R("other", 7)>>]],
   [root |-> <<2>>, fat |-> Table(<<2>>, [c \in {7} |-> 7]),
    dir |-> [c \in {2} |-> <<R("kernel", 7), R("end", 0)>>]],
   [root |-> <<2>>, fat |-> Table(<<2>>, [c \in {32} |-> MCEnd - 7]),
    dir |-> [c \in {2} |-> <<R("kernel", 32), R("end", 0)>>]]}

MCLbas == {3, 12}
=============================================================================
