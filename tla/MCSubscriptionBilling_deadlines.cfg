\* Three invoices while deadline passes run, die and save old rows.
SPECIFICATION FairSpec
CONSTANTS
  Invoices = {i1, i2, i3}
  Period = 2
  Grace = 1
  DueIn = 1
  MaxTime = 6
INVARIANTS BilledOnce PaidTimeIsServed
PROPERTY LapsedIsSuspended
