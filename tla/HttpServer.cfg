SPECIFICATION FairSpec
CONSTANTS
    c1 = c1
    get = get
    last = last
    post = post
    upload = upload
    empty = empty
    big = big
    Conns = {c1}
    Requests <- MCRequests
    HasBody = {post, upload, big}
    TooBig = {big}
    Uploads = {upload, empty}
    Closing = {last}
    Routed = {post}
    Timeouts = {TRUE, FALSE}
    MaxRequests = 3
    MaxHidden = 2
INVARIANT SessionInv
PROPERTY ImplementsRequestReply
PROPERTY SessionEnds
PROPERTY EveryRequestAnswered
\* A server whose clients have all left, or that has stopped listening, is at rest.
CHECK_DEADLOCK FALSE
