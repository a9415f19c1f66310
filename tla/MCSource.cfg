SPECIFICATION SFairSpec
CONSTANTS
 c1=c1
 c2=c2
 c3=c3
 web=web
 db=db
 NoCommit=NoCommit
 Commit<-MCCommit
 ParentOf<-MCParentOf
 Generation<-MCGeneration
 Document<-MCDocument
 Nesting<-MCNesting
 MaxNesting=2
 Tree<-MCTree
 Paths<-ValidPaths
 Batch=1
 Rounds=2
 Depths={1}
 Wanted={c1,c3}
 Faults={"git","crash","lock","pass"}
INVARIANTS TypeOK OnTarget
PROPERTIES AppliesTheCommit GivesUpBeyondReach Follows
