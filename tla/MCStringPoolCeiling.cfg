SPECIFICATION Spec
CONSTANTS
    a = a
    b = b
    c = c
    c1 = c1
    c2 = c2
    c3 = c3
    ascii = ascii
    utf8 = utf8
    Blank = Blank
    Strings <- MCStrings
    Cells <- MCCells
    Codepages <- MCCodepages
    Encodable <- MCEncodable
    MaxRefcount = 2
    MaxShortRef = 2
SYMMETRY Symmetry
INVARIANT
    EveryCellResolves
