------------------------------ MODULE MCGateway ------------------------------
(* Gateway with interchangeable users; one request is for any route, another *)
(* one reads what is the user's or everybody's.                              *)
EXTENDS Gateway

T == INSTANCE TLC

Symmetry == T!Permutations(Users)

AnyAndRead ==
  [r \in Requests |->
     IF r = "any" THEN DOMAIN Routes ELSE {"findAllWalletsForUser", "findAllTokens"}]
=============================================================================
