------------------------------- MODULE MCJira -------------------------------
EXTENDS JiraProps, TLC
CONSTANTS d1, d2, d3, a, b, w1, w2

TwoRecipients == d1 :> a @@ d2 :> a @@ d3 :> b
OneEach       == d1 :> a @@ d2 :> b
OneWork       == a :> w1 @@ b :> w1
TwoWorks      == a :> w1 @@ b :> w2
SecondHigher  == a :> 1 @@ b :> 2
FirstHigher   == a :> 2 @@ b :> 1
=============================================================================
