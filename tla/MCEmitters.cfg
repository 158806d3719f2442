SPECIFICATION FairSpec
CONSTANTS
    moneyBefore = moneyBefore
    moneyAfter = moneyAfter
    sendBefore = sendBefore
    sendTyped = sendTyped
    structureTyped = structureTyped
    add = add
    trans = trans
    send = send
    village = village
    ocean = ocean
    Events <- MCEvents
    Hooks <- MCHooks
    HooksOf <- MCHooksOf
    MemberEvents <- MCMemberEvents
    Listeners = {l1, l2}
INVARIANTS TypeOK CountExact ListenersHeard NothingLeftHooked
PROPERTIES SubscriptionTakesEffect ImplementsInterception
