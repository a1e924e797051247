SPECIFICATION FairSpec
CONSTANTS
  Reviews = {r1}
  OperatorCalls = {o1, o2}
  LeaderCalls = {l1, l2}
  leader1 = leader1
  None = None
  Leaders <- MCLeaders
  IdOf <- MCIdOf
  FilesOf <- MCFilesOf
  BaseRequired = FALSE
  MaxRev = 2
  MaxCrashes = 2
INVARIANTS OneApplyPathPerReview SlotOwnerKeepsSlot LandedWasReviewed
           LandedIsInGit CommitIsNeverForgotten ApplyingHasOwner
PROPERTIES NothingIsReopened ClaimSettles
