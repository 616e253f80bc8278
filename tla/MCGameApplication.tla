-------------------------- MODULE MCGameApplication --------------------------
EXTENDS GameApplication, TLC

Messages == {"DestroyEntity", "DestroyAllEntities", "DestroyEntitiesWithTag",
             "UserMessage"}
ObserverSymmetry == Permutations(Observer)
Values == Entity \cup {None}
=============================================================================
