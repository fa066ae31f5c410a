SPECIFICATION Spec
INVARIANTS ListedRequestsServed
