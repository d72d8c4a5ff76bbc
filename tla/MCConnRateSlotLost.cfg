CONSTANT Options <- OneAtATime
SPECIFICATION FairSpec
PROPERTY EventuallyStops
