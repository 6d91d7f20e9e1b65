SPECIFICATION Spec
CONSTANTS
    Numbers = {"300"}
    MaxPlaces = 2
INVARIANT TypeOK
INVARIANT RuntimeFollowsPrecedence
INVARIANT ResolversAgree
INVARIANT DeploymentFollowsPrecedence
INVARIANT ContainerRunsPlan
 
CHECK_DEADLOCK FALSE
